---- MODULE Spec2Model ----
(***************************************************************************)
(* ReOrder AI: the normalization pipeline (PipelineRunner.run and its      *)
(* seven stages over the session of get_session) and the managed-service   *)
(* forecast provider (AWSForecastProvider.predict_bulk, its poll loop and  *)
(* its cleanup).                                                           *)
(*                                                                         *)
(* Spec      the pipeline: raw_orders, normalized_series, one run at a     *)
(*           time stepping through load, the stages, delete, insert and    *)
(*           the commit or rollback of get_session.                        *)
(* BulkSpec  one call of predict_bulk: every SDK call may raise, every     *)
(*           describe call returns a status, every delete may fail.        *)
(* FcSpec    one call of run_forecasts with either kind of provider.       *)
(* ProviderSpec  one call of SimpleProvider.predict or of                  *)
(*           AWSForecastProvider._query_forecast on a drawn input.         *)
(* StageSpec one call of a pipeline stage's transform on a drawn frame.    *)
(* SeriesSpec  the rollup, outlier and interpolation stages applied in     *)
(*           turn to a drawn frame.                                        *)
(* JobSpec   the scheduled job _run_all_forecasts over the committed       *)
(*           forecast_results and inventory_items tables.                  *)
(* ConcSpec  two runs for one store at once, each in its own session.      *)
(***************************************************************************)
EXTENDS Integers, Sequences, FiniteSets, TLC

VARIABLES
    \* ---- database tables (committed state)
    rawOrders,      \* raw_orders: set of order lines, each with its own id
    rawRefunds,     \* raw_refunds: set of refunds
    normalized,     \* normalized_series: set of series rows, all stores
    \* ---- PipelineRunner.run
    ppc,            \* position of the run
    pstore,         \* self.store_id
    pstrategy,      \* self.outlier_strategy
    pmethod,        \* self.interpolation_method
    orders,         \* the orders DataFrame
    series,         \* the series DataFrame
    result,         \* the result dict: loaded_orders, output_rows, error
    txDeleted,      \* the session's transaction has run the store's DELETE
    txAdded,        \* rows added to the session, not yet flushed
    \* ---- history of the current run (observers, not read by the run)
    stageLog,       \* the stages and persistence steps executed, in order
    before,         \* normalized_series as committed when the run started
    loaded,         \* the raw order lines the run loaded
    \* ---- AWSForecastProvider.predict_bulk
    bpc,            \* position of the call
    allHistory,     \* all_history: sku -> number of history rows (0: absent)
    created,        \* resources that exist remotely (their create call returned)
    registered,     \* keys of created_resources
    calls,          \* the steps of the try block started, in order
    observed,       \* asynchronous steps whose poll saw the target status
    results,        \* SKUs with a ForecastResult in results
    queried,        \* SKUs whose query has been issued
    outcome,        \* "none" | "returned" | "raised"
    exitAt,         \* the step at which the try block was left
    \* ---- _wait_for_status (the loop of the step bpc names)
    wpc,            \* "none" | "check" | "poll" | "sleep" | "exit"
    elapsed,        \* time.time() - start, saturated at the ceiling
    polls,          \* polls made by the loop
    lastStatus,     \* status returned by the latest poll
    waitExit,       \* how the loop ended: "none" | "returned" | "failed" | "timeout"
    \* ---- _cleanup
    cleanupIdx,     \* next position in the cleanup order
    deletes,        \* delete attempts issued, in order: <<resource, ok>>
    outcomeAtCleanup, \* outcome and results when _cleanup was entered
    \* ---- run_forecasts
    fpc,            \* position of the run
    fprovider,      \* the kind of the provider argument: "aws" | "simple"
    fcHistory,      \* all_history: sku -> number of rows (0: no rows, no key)
    eligible,       \* aws_eligible: set of SKUs
    fallback,       \* fallback_skus: the keys in dict order
    bulkArg,        \* the SKUs handed to predict_bulk, in call order
    ftodo,          \* the rest of the loop under way
    fresults,       \* results: the ForecastResults produced, in order
    summary,        \* ForecastRunSummary: skus_forecasted, skus_skipped, errors
    attempted,      \* SKUs handed to a provider's predict, in call order
    forecastRows,   \* forecast_results rows added to the session, in order
    inventory,      \* inventory_items: sku -> predicted_demand_30d
    foutcome,       \* "none" | "returned"
    \* ---- a pure function applied to an input
    fnOp,           \* the function applied, "none" before
    fnIn,           \* its arguments
    fnOut,          \* its result
    \* ---- _run_all_forecasts and the tables it writes
    jpc,            \* position of the job
    jtodo,          \* store_ids still to be processed, in order
    jtx,            \* the open session: its store and its uncommitted writes
    fcTable,        \* forecast_results (committed), in insertion order
    invTable,       \* inventory_items (committed): sku -> owner and demand
    jlog,           \* how each store's run ended, in order
    jobs,           \* jobs completed
    jclock,         \* datetime.utcnow
    \* ---- two runs for one store, each with its own session
    cpc,            \* position of each pipeline run
    ctx,            \* each run's session: what it deleted and added
    ctable,         \* normalized_series rows of the store (committed)
    cfpc,           \* position of each predict_bulk call
    cremote         \* resources that exist at the managed service

pipeVars == <<rawOrders, rawRefunds, normalized, ppc, pstore, pstrategy, pmethod,
              orders, series, result, txDeleted, txAdded, stageLog, before, loaded>>
bulkVars == <<bpc, allHistory, created, registered, calls, observed, results,
              queried, outcome, exitAt, wpc, elapsed, polls, lastStatus, waitExit,
              cleanupIdx, deletes, outcomeAtCleanup>>
fcVars == <<fpc, fprovider, fcHistory, eligible, fallback, bulkArg, ftodo, fresults,
            summary, attempted, forecastRows, inventory, foutcome>>
fnVars == <<fnOp, fnIn, fnOut>>
jobVars == <<jpc, jtodo, jtx, fcTable, invTable, jlog, jobs, jclock>>
concVars == <<cpc, ctx, ctable, cfpc, cremote>>
vars == <<pipeVars, bulkVars, fcVars, fnVars, jobVars, concVars>>

(***************************************************************************)
(* The data of the pipeline.                                               *)
(***************************************************************************)
Stores == {"s1", "s2"}

\* category None
NoCat == ""

\* order of the category values (pandas sorts group keys)
CatOrder == <<"", "c1", "c2">>

Pos(seq, x) == CHOOSE i \in 1..Len(seq) : seq[i] = x

\* quantity and revenue of a series row are fixed-point numbers in eighths, so
\* that the quantile interpolation (quarters) and the 1.5 multiplier stay exact
Fixed == 4 * 2

\* order_date_utc is an hour count; 24 hours to the calendar day
HoursPerDay == 24

\* The order lines that ingestion may hand in.  Lines 1 and 2 put one SKU on one
\* day under two categories; line 3 is a raw SKU with a mapping, two days later.
OrderLines ==
    { [id |-> 1, store_id |-> "s1", external_order_id |-> "o1", sku_raw |-> "A",
       quantity |-> 2, unit_price |-> 10, currency |-> "USD",
       order_date_utc |-> 1 * HoursPerDay + 12, category |-> "c1"],
      [id |-> 2, store_id |-> "s1", external_order_id |-> "o1", sku_raw |-> "A",
       quantity |-> 3, unit_price |-> 20, currency |-> "USD",
       order_date_utc |-> 1 * HoursPerDay + 23, category |-> "c2"],
      [id |-> 3, store_id |-> "s1", external_order_id |-> "o2", sku_raw |-> "b",
       quantity |-> 1, unit_price |-> 5, currency |-> "EUR",
       order_date_utc |-> 3 * HoursPerDay, category |-> NoCat],
      [id |-> 4, store_id |-> "s2", external_order_id |-> "o3", sku_raw |-> "A",
       quantity |-> 4, unit_price |-> 10, currency |-> "USD",
       order_date_utc |-> 2 * HoursPerDay + 1, category |-> "c1"] }

\* The refund tables a store may hold (no code of the repository writes refunds).
RefundTables ==
    { {},
      { [id |-> 1, store_id |-> "s1", external_order_id |-> "o1", amount |-> 40,
         currency |-> "USD"] } }

\* sku_mappings: (store_id, sku_raw) -> canonical_sku
SkuMappings == { [store_id |-> "s1", sku_raw |-> "b", canonical_sku |-> "B"] }

\* PipelineConfig of a store: get_store_pipeline_config gives rates {base: 1.0}
StoreConfig(s) ==
    [store_id |-> s, timezone |-> "UTC", base_currency |-> "USD",
     exchange_rates |-> [c \in {"USD"} |-> 1]]

\* the sum of column col over the rows of a frame
RECURSIVE SumField(_, _)
SumField(df, col) ==
    IF df = {} THEN 0
    ELSE LET r == CHOOSE x \in df : TRUE IN r[col] + SumField(df \ {r}, col)

SetMin(S) == CHOOSE x \in S : \A y \in S : x <= y
SetMax(S) == CHOOSE x \in S : \A y \in S : x >= y

\* str.upper on the currency codes in use
Upper(c) == CASE c = "usd" -> "USD" [] c = "eur" -> "EUR" [] OTHER -> c

\* mutant: no conversion at all
ToBaseCurrencyMut(config, amount, currency) == amount

\* PipelineConfig.to_base_currency
ToBaseCurrency(config, amount, currency) ==
    IF currency = config.base_currency THEN amount
    ELSE IF Upper(currency) \in DOMAIN config.exchange_rates
         THEN amount * config.exchange_rates[Upper(currency)]
         ELSE amount

\* the offset from UTC a timestamp carries, in hours; a naive datetime (a row
\* read from raw_orders) is taken as UTC
UtcOffset(l) == IF "utc_offset" \in DOMAIN l THEN l.utc_offset ELSE 0

\* pd.to_datetime(..., utc=True): the instant as an hour count in UTC
ToDatetimeUtc(l) == l.order_date_utc - UtcOffset(l)

\* mutant: the date of the wall-clock time, the offset dropped
TimezoneNormalizerMut(df) ==
    { [series_date |-> l.order_date_utc \div HoursPerDay] @@ l : l \in df }

\* TimezoneNormalizer.transform: order_date_utc becomes UTC, series_date is its
\* calendar date
TimezoneNormalizer(df) ==
    { [series_date |-> ToDatetimeUtc(l) \div HoursPerDay]
          @@ (IF "utc_offset" \in DOMAIN l
              THEN [l EXCEPT !.order_date_utc = ToDatetimeUtc(l), !.utc_offset = 0]
              ELSE l)
      : l \in df }

\* CurrencyNormalizer.transform
CurrencyNormalizer(df, config) ==
    { [revenue_base |-> ToBaseCurrency(config, l.quantity * l.unit_price, l.currency)] @@ l
      : l \in df }

\* mutant: refunds are not applied
RefundAdjustmentMut(df, refunds, config) == df

\* RefundAdjustment.transform (amounts are integers; the share is rounded down)
RefundAdjustment(df, refunds, config) ==
    LET store == (CHOOSE l \in df : TRUE).store_id
        mine == { r \in refunds : r.store_id = store }
        InBase(r) == [id |-> r.id, external_order_id |-> r.external_order_id,
                      amount_base |-> ToBaseCurrency(config, r.amount, r.currency)]
        RefundOf(o) == SumField({ InBase(r) : r \in { x \in mine : x.external_order_id = o } },
                                "amount_base")
        OrderRevenue(o) == SumField({ l \in df : l.external_order_id = o }, "revenue_base")
        Share(l) == IF OrderRevenue(l.external_order_id) > 0
                    THEN (l.revenue_base * RefundOf(l.external_order_id))
                             \div OrderRevenue(l.external_order_id)
                    ELSE 0
        Clip0(x) == IF x < 0 THEN 0 ELSE x
    IN IF df = {} \/ mine = {} THEN df
       ELSE { [l EXCEPT !.revenue_base = Clip0(l.revenue_base - Share(l))] : l \in df }

\* SKUDeduplicator.transform
SKUDeduplicator(df, store) ==
    LET Canon(x) == IF \E m \in SkuMappings : m.store_id = store /\ m.sku_raw = x
                    THEN (CHOOSE m \in SkuMappings :
                              m.store_id = store /\ m.sku_raw = x).canonical_sku
                    ELSE x
    IN { [canonical_sku |-> Canon(l.sku_raw)] @@ l : l \in df }

\* mutant: the category is left out of the grouping key
VariantRollupMut(df) ==
    LET Key(l) == <<l.store_id, l.canonical_sku, l.series_date>>
        Keys == { Key(l) : l \in df }
        Group(k) == { l \in df : Key(l) = k }
    IN { [store_id |-> k[1], sku_id |-> k[2], category_id |-> NoCat, series_date |-> k[3],
          quantity |-> Fixed * SumField(Group(k), "quantity"),
          revenue |-> Fixed * SumField(Group(k), "revenue_base"),
          is_interpolated |-> FALSE, is_outlier_adjusted |-> FALSE] : k \in Keys }

\* VariantRollup.transform: one row per (store_id, sku_id, category_id, series_date)
VariantRollup(df) ==
    LET Key(l) == <<l.store_id, l.canonical_sku, l.category, l.series_date>>
        Keys == { Key(l) : l \in df }
        Group(k) == { l \in df : Key(l) = k }
    IN { [store_id |-> k[1], sku_id |-> k[2], category_id |-> k[3], series_date |-> k[4],
          quantity |-> Fixed * SumField(Group(k), "quantity"),
          revenue |-> Fixed * SumField(Group(k), "revenue_base"),
          is_interpolated |-> FALSE, is_outlier_adjusted |-> FALSE] : k \in Keys }
\* Series.quantile(num/4) of column col, by linear interpolation between the
\* two nearest order statistics
KthSmallest(df, col, k) ==
    CHOOSE v \in { r[col] : r \in df } :
        /\ Cardinality({ r \in df : r[col] < v }) <= k
        /\ k < Cardinality({ r \in df : r[col] <= v })

Quantile(df, col, num) ==
    LET pos4 == (Cardinality(df) - 1) * num
        lo == pos4 \div 4
        fr == pos4 % 4
        vlo == KthSmallest(df, col, lo)
        vhi == IF fr = 0 THEN vlo ELSE KthSmallest(df, col, lo + 1)
    IN vlo + (fr * (vhi - vlo)) \div 4

\* mutant: the column is never touched
OutlierColumnMut(df, col, strategy) == df

\* the body of OutlierDetector.transform's loop for one column
OutlierColumn(df, col, strategy) ==
    LET q1 == Quantile(df, col, 1)
        q3 == Quantile(df, col, 3)
        iqr == q3 - q1
        low == q1 - (3 * iqr) \div 2
        high == q3 + (3 * iqr) \div 2
        Outside(r) == r[col] < low \/ r[col] > high
        Clip(x) == IF x < low THEN low ELSE IF x > high THEN high ELSE x
    IN IF iqr = 0 THEN df
       ELSE IF strategy = "cap"
       THEN { IF Outside(r)
              THEN [r EXCEPT ![col] = Clip(r[col]), !.is_outlier_adjusted = TRUE]
              ELSE r : r \in df }
       ELSE { [r EXCEPT !.is_outlier_adjusted = r.is_outlier_adjusted \/ Outside(r)]
              : r \in df }

\* OutlierDetector.transform
OutlierDetector(df, strategy) ==
    IF df = {} \/ strategy = "none" THEN df
    ELSE OutlierColumn(OutlierColumn(df, "quantity", strategy), "revenue", strategy)

\* the rows of a (store, sku) as the DataFrame orders them: by category, then date
FirstByCategory(rows) ==
    CHOOSE r \in rows : \A o \in rows : Pos(CatOrder, r.category_id) <= Pos(CatOrder, o.category_id)

\* mutant: only the dates that already carry a row are emitted
FilledDatesMut(df) == { r.series_date : r \in df }

\* the dates MissingDataInterpolator.transform emits for one (store, sku)
FilledDates(df) ==
    SetMin({ r.series_date : r \in df }) .. SetMax({ r.series_date : r \in df })

\* MissingDataInterpolator.transform; method is accepted and not branched on
MissingDataInterpolator(df, method) ==
    LET Keys == { <<r.store_id, r.sku_id>> : r \in df }
        Sub(k) == { r \in df : r.store_id = k[1] /\ r.sku_id = k[2] }
        \* agg "first" skips None
        Tagged(k) == { r \in Sub(k) : r.category_id # NoCat }
        Cat(k) == IF Tagged(k) = {} THEN NoCat ELSE FirstByCategory(Tagged(k)).category_id
        OnDay(k, d) == { r \in Sub(k) : r.series_date = d }
        Rec(k, d) == FirstByCategory(OnDay(k, d))
        Row(k, d) ==
            IF OnDay(k, d) # {}
            THEN [store_id |-> k[1], sku_id |-> k[2], category_id |-> Cat(k),
                  series_date |-> d, quantity |-> Rec(k, d).quantity,
                  revenue |-> Rec(k, d).revenue,
                  is_interpolated |-> Rec(k, d).is_interpolated,
                  is_outlier_adjusted |-> Rec(k, d).is_outlier_adjusted]
            ELSE [store_id |-> k[1], sku_id |-> k[2], category_id |-> Cat(k),
                  series_date |-> d, quantity |-> 0, revenue |-> 0,
                  is_interpolated |-> TRUE, is_outlier_adjusted |-> FALSE]
    IN IF df = {} THEN df
       ELSE { Row(k, d) : k \in Keys, d \in FilledDates(df) }

\* what a run computes from the lines it loaded
ComputeSeries(lines, refunds, store, strategy, method) ==
    MissingDataInterpolator(
        OutlierDetector(
            VariantRollup(
                SKUDeduplicator(
                    RefundAdjustment(
                        CurrencyNormalizer(TimezoneNormalizer(lines), StoreConfig(store)),
                        refunds, StoreConfig(store)),
                    store)),
            strategy),
        method)

\* ix_normalized_series_store_sku_date, unique
SeriesKey(r) == <<r.store_id, r.sku_id, r.series_date>>
UniqueKeys(rows) == \A a, b \in rows : SeriesKey(a) = SeriesKey(b) => a = b
(***************************************************************************)
(* PipelineRunner.run inside `with get_session() as session`.              *)
(***************************************************************************)
Strategies == {"cap", "flag", "none"}
Methods == {"zero", "linear"}

StoreRows(table, s) == { r \in table : r.store_id = s }

\* mutant: currency conversion runs before the timezone stage
StageOrderMut ==
    <<"currency", "timezone", "refunds", "dedup", "rollup", "outliers", "interpolation",
      "delete", "insert">>

\* the numbered steps of run after the load, in the order the code runs them
StageOrder ==
    <<"timezone", "currency", "refunds", "dedup", "rollup", "outliers", "interpolation",
      "delete", "insert">>

After(st) ==
    IF Pos(StageOrder, st) = Len(StageOrder) THEN "commit"
    ELSE StageOrder[Pos(StageOrder, st) + 1]

\* mutant: no short-circuit on an empty load
AfterLoadMut(df) == StageOrder[1]

\* where run goes once the orders are loaded: `if orders.empty: return result`
AfterLoad(df) == IF df = {} THEN "commit" ELSE StageOrder[1]

\* mutant: the commit applies the INSERTs and loses the DELETE
CommittedMut(table, s, deleted, added) == table \cup added

\* session.commit(): the DELETE and the flushed INSERTs become visible together
Committed(table, s, deleted, added) ==
    (IF deleted THEN table \ StoreRows(table, s) ELSE table) \cup added

\* mutant: the DELETE was committed on its own and survives the rollback
RolledBackMut(table, s, deleted, added) ==
    IF deleted THEN table \ StoreRows(table, s) ELSE table

\* session.rollback(): nothing of the transaction stays
RolledBack(table, s, deleted, added) == table

NoResult == [loaded_orders |-> 0, output_rows |-> 0, error |-> "None"]

PipeIdle ==
    /\ ppc = "idle" /\ pstore = "none" /\ pstrategy = "none" /\ pmethod = "none"
    /\ orders = {} /\ series = {} /\ result = NoResult
    /\ txDeleted = FALSE /\ txAdded = {} /\ stageLog = <<>>
    /\ before = {} /\ loaded = {}

PipeInit ==
    /\ rawOrders = {}
    /\ rawRefunds \in RefundTables
    /\ normalized = {}
    /\ PipeIdle

\* POST /pipeline/ingest/orders: rows are only ever added
IngestOrders(l) ==
    /\ l \notin rawOrders
    /\ rawOrders' = rawOrders \cup {l}
    /\ UNCHANGED <<bulkVars, fcVars, fnVars, jobVars, concVars>>
    /\ UNCHANGED <<rawRefunds, normalized, ppc, pstore, pstrategy, pmethod, orders, series,
                   result, txDeleted, txAdded, stageLog, before, loaded>>

\* raw_orders belongs to the ingestion side: between runs its rows of a store can
\* be removed there (retention, re-import); the repository has no such code path
PurgeRawOrders(s) ==
    /\ ppc = "idle"
    /\ \E l \in rawOrders : l.store_id = s
    /\ rawOrders' = { l \in rawOrders : l.store_id # s }
    /\ UNCHANGED <<bulkVars, fcVars, fnVars, jobVars, concVars>>
    /\ UNCHANGED <<rawRefunds, normalized, ppc, pstore, pstrategy, pmethod, orders, series,
                   result, txDeleted, txAdded, stageLog, before, loaded>>

\* PipelineRunner(store_id, outlier_strategy, interpolation_method).run() is called
StartRun(s, strategy, method) ==
    /\ ppc = "idle"
    /\ ppc' = "load"
    /\ pstore' = s /\ pstrategy' = strategy /\ pmethod' = method
    /\ before' = normalized
    /\ UNCHANGED <<bulkVars, fcVars, fnVars, jobVars, concVars>>
    /\ UNCHANGED <<rawOrders, rawRefunds, normalized, orders, series, result, txDeleted,
                   txAdded, stageLog, loaded>>

\* `except Exception as e: result["error"] = str(e); raise`, out of the with block
Raise ==
    /\ ppc' = "rollback"
    /\ result' = [result EXCEPT !.error = "error"]
    /\ UNCHANGED <<bulkVars, fcVars, fnVars, jobVars, concVars>>
    /\ UNCHANGED <<rawOrders, rawRefunds, normalized, pstore, pstrategy, pmethod, orders,
                   series, txDeleted, txAdded, stageLog, before, loaded>>

\* _load_raw_orders and the empty short-circuit
LoadOrders ==
    /\ ppc = "load"
    /\ \/ LET df == { l \in rawOrders : l.store_id = pstore } IN
          /\ orders' = df
          /\ loaded' = df
          /\ result' = [result EXCEPT !.loaded_orders = Cardinality(df)]
          /\ ppc' = AfterLoad(df)
          /\ UNCHANGED <<bulkVars, fcVars, fnVars, jobVars, concVars>>
          /\ UNCHANGED <<rawOrders, rawRefunds, normalized, pstore, pstrategy, pmethod,
                         series, txDeleted, txAdded, stageLog, before>>
       \/ Raise

\* one numbered step of run: it completes, or it raises
Step(st, newOrders, newSeries) ==
    /\ ppc = st
    /\ \/ /\ orders' = newOrders
          /\ series' = newSeries
          /\ stageLog' = Append(stageLog, st)
          /\ ppc' = After(st)
          /\ UNCHANGED <<bulkVars, fcVars, fnVars, jobVars, concVars>>
          /\ UNCHANGED <<rawOrders, rawRefunds, normalized, pstore, pstrategy, pmethod,
                         result, txDeleted, txAdded, before, loaded>>
       \/ Raise

Timezone == Step("timezone", TimezoneNormalizer(orders), series)
Currency == Step("currency", CurrencyNormalizer(orders, StoreConfig(pstore)), series)
Refunds == Step("refunds", RefundAdjustment(orders, rawRefunds, StoreConfig(pstore)), series)
Dedup == Step("dedup", SKUDeduplicator(orders, pstore), series)
Rollup == Step("rollup", orders, VariantRollup(orders))
Outliers == Step("outliers", orders, OutlierDetector(series, pstrategy))
Interpolation == Step("interpolation", orders, MissingDataInterpolator(series, pmethod))

\* session.query(NormalizedSeries).filter(store_id == self.store_id).delete()
DeleteExisting ==
    /\ ppc = "delete"
    /\ \/ /\ txDeleted' = TRUE
          /\ stageLog' = Append(stageLog, "delete")
          /\ ppc' = After("delete")
          /\ UNCHANGED <<bulkVars, fcVars, fnVars, jobVars, concVars>>
          /\ UNCHANGED <<rawOrders, rawRefunds, normalized, pstore, pstrategy, pmethod,
                         orders, series, result, txAdded, before, loaded>>
       \/ Raise

\* the session.add loop and result["output_rows"] = len(series)
InsertRows ==
    /\ ppc = "insert"
    /\ \/ /\ txAdded' = series
          /\ result' = [result EXCEPT !.output_rows = Cardinality(series)]
          /\ stageLog' = Append(stageLog, "insert")
          /\ ppc' = After("insert")
          /\ UNCHANGED <<bulkVars, fcVars, fnVars, jobVars, concVars>>
          /\ UNCHANGED <<rawOrders, rawRefunds, normalized, pstore, pstrategy, pmethod,
                         orders, series, txDeleted, before, loaded>>
       \/ Raise

\* get_session after the yield: session.commit(), or on its failure (a database
\* error, the unique index) session.rollback() and raise
Commit ==
    /\ ppc = "commit"
    /\ \/ /\ UniqueKeys(Committed(normalized, pstore, txDeleted, txAdded))
          /\ normalized' = Committed(normalized, pstore, txDeleted, txAdded)
          /\ ppc' = "returned"
       \/ /\ normalized' = RolledBack(normalized, pstore, txDeleted, txAdded)
          /\ ppc' = "raised"
    /\ UNCHANGED <<bulkVars, fcVars, fnVars, jobVars, concVars>>
    /\ UNCHANGED <<rawOrders, rawRefunds, pstore, pstrategy, pmethod, orders, series,
                   result, txDeleted, txAdded, stageLog, before, loaded>>

\* get_session's `except Exception: session.rollback(); raise`
Rollback ==
    /\ ppc = "rollback"
    /\ normalized' = RolledBack(normalized, pstore, txDeleted, txAdded)
    /\ ppc' = "raised"
    /\ UNCHANGED <<bulkVars, fcVars, fnVars, jobVars, concVars>>
    /\ UNCHANGED <<rawOrders, rawRefunds, pstore, pstrategy, pmethod, orders, series,
                   result, txDeleted, txAdded, stageLog, before, loaded>>

\* session.close(); the caller has the result or the exception
Finish ==
    /\ ppc \in {"returned", "raised"}
    /\ ppc' = "idle" /\ pstore' = "none" /\ pstrategy' = "none" /\ pmethod' = "none"
    /\ orders' = {} /\ series' = {} /\ result' = NoResult
    /\ txDeleted' = FALSE /\ txAdded' = {} /\ stageLog' = <<>>
    /\ before' = {} /\ loaded' = {}
    /\ UNCHANGED <<bulkVars, fcVars, fnVars, jobVars, concVars>>
    /\ UNCHANGED <<rawOrders, rawRefunds, normalized>>

BulkIdle ==
    /\ bpc = "idle" /\ allHistory = <<>> /\ created = {} /\ registered = {}
    /\ calls = <<>> /\ observed = {} /\ results = {} /\ queried = {}
    /\ outcome = "none" /\ exitAt = "none" /\ wpc = "none" /\ elapsed = 0
    /\ polls = 0 /\ lastStatus = "none" /\ waitExit = "none"
    /\ cleanupIdx = 0 /\ deletes = <<>> /\ outcomeAtCleanup = <<>>

\* run_forecasts is not running
FcIdle ==
    /\ fpc = "idle" /\ fprovider = "none" /\ fcHistory = <<>> /\ eligible = {}
    /\ fallback = <<>> /\ bulkArg = <<>> /\ ftodo = <<>> /\ fresults = <<>>
    /\ summary = <<>> /\ attempted = <<>> /\ forecastRows = <<>> /\ inventory = <<>>
    /\ foutcome = "none"

\* no function has been applied
FnIdle == fnOp = "none" /\ fnIn = <<>> /\ fnOut = <<>>

\* no scheduled job is running and its tables are empty
JobIdle ==
    /\ jpc = "idle" /\ jtodo = <<>> /\ jtx = <<>> /\ fcTable = <<>>
    /\ invTable = <<>> /\ jlog = <<>> /\ jobs = 0 /\ jclock = 0

\* no concurrent runs
ConcIdle == cpc = <<>> /\ ctx = <<>> /\ ctable = {} /\ cfpc = <<>> /\ cremote = {}

Init == PipeInit /\ BulkIdle /\ FcIdle /\ FnIdle /\ JobIdle /\ ConcIdle

Next ==
    \/ \E l \in OrderLines : IngestOrders(l)
    \/ \E s \in Stores : PurgeRawOrders(s)
    \/ \E s \in Stores, strategy \in Strategies, method \in Methods : StartRun(s, strategy, method)
    \/ LoadOrders
    \/ Timezone
    \/ Currency
    \/ Refunds
    \/ Dedup
    \/ Rollup
    \/ Outliers
    \/ Interpolation
    \/ DeleteExisting
    \/ InsertRows
    \/ Commit
    \/ Rollback
    \/ Finish

Spec == Init /\ [][Next]_vars

(***************************************************************************)
(* Properties of the pipeline run.                                         *)
(***************************************************************************)
Running == ppc \notin {"idle", "returned", "raised"}

\* C1: a run that raises (in a stage, in the delete or insert, or in the commit)
\* stops there, the exception reaches the caller, and normalized_series is what
\* it was when the run started; at no time does the committed table hold the
\* store's rows deleted with none or part of the new rows.
C1_NoPartialPersistence ==
    /\ result.error = "error" => ppc \in {"rollback", "raised"}
    /\ ppc \in {"rollback", "raised"} => normalized = before
    /\ Running => normalized = before
    /\ ppc = "returned" =>
           StoreRows(normalized, pstore) \in {StoreRows(before, pstore), txAdded}

\* a commit failed after the delete and the inserts of different rows were issued
C1_Witness ==
    /\ ppc = "raised" /\ txDeleted /\ txAdded # {}
    /\ StoreRows(before, pstore) # {}
    /\ StoreRows(before, pstore) # txAdded

Skus(rows) == { r.sku_id : r \in rows }
Dates(rows) == { r.series_date : r \in rows }

C4_EmptyLoadShortCircuit ==
    (loaded = {} /\ ppc \notin {"idle", "load", "rollback", "raised"}) =>
        /\ ppc \in {"commit", "returned"}
        /\ stageLog = <<>>
        /\ ~txDeleted /\ txAdded = {}
        /\ result.output_rows = 0 /\ result.error = "None"
        /\ normalized = before

\* an empty-load run returned for a store that has persisted rows
C4_Witness ==
    /\ ppc = "returned" /\ loaded = {}
    /\ StoreRows(normalized, pstore) # {}

\* C5: the steps of a run execute at most once, in the order timezone,
\* currency, refunds, dedup, rollup, outliers, interpolation, delete, insert;
\* a step is reached only when exactly the steps before it have completed.
C5_StageOrder ==
    LET canon == <<"timezone", "currency", "refunds", "dedup", "rollup", "outliers",
                   "interpolation", "delete", "insert">>
    IN /\ Len(stageLog) <= Len(canon)
       /\ \A i \in 1..Len(stageLog) : stageLog[i] = canon[i]
       /\ \A i \in 1..Len(canon) : ppc = canon[i] => Len(stageLog) = i - 1
       /\ (txDeleted \/ txAdded # {}) => Len(stageLog) >= 8

\* a run with rows to persist went through all nine steps and returned
C5_Witness == ppc = "returned" /\ Len(stageLog) = 9 /\ txAdded # {}

\* mutant: the reader sees the run's uncommitted DELETE and INSERTs
ReadSeriesMut(s) == StoreRows(Committed(normalized, pstore, txDeleted, txAdded), s)

\* GET /pipeline/{store_id}/series in a session of its own: the committed rows
ReadSeries(s) == StoreRows(normalized, s)

\* C25: the delete and the inserts of a run become visible to a concurrent
\* reader together: whenever it reads during or after the run, the reader gets
\* the store's complete series of before the run or, once the run has
\* committed, the complete series the run wrote; never the store emptied,
\* never part of the new rows.
C25_ReadersSeeOldOrNew ==
    ppc # "idle" =>
        IF ppc = "returned" /\ txDeleted
        THEN ReadSeries(pstore) = series
        ELSE ReadSeries(pstore) = StoreRows(before, pstore)

\* the delete and the inserts of other rows are issued and not yet committed,
\* and the reader still gets the earlier series
C25_Witness ==
    /\ ppc = "commit" /\ txDeleted /\ txAdded # {}
    /\ StoreRows(before, pstore) # {}
    /\ txAdded # StoreRows(before, pstore)
    /\ ReadSeries(pstore) = StoreRows(before, pstore)

\* the new series has replaced the earlier one for the reader
C25_NewSeriesReached ==
    /\ ppc = "returned" /\ txDeleted
    /\ StoreRows(before, pstore) # {}
    /\ ReadSeries(pstore) # StoreRows(before, pstore)

\* C28: with no refunds and outlier strategy none, every persisted row of a
\* run that is not interpolated carries the sums of quantity and base-currency
\* revenue over all the store's raw lines of its canonical SKU and date, also
\* when those lines carry different categories.
C28_ConservesQuantityAndRevenue ==
    (ppc = "returned" /\ txDeleted /\ rawRefunds = {} /\ pstrategy = "none") =>
        \A r \in ReadSeries(pstore) :
            LET lines == { l \in orders : /\ l.canonical_sku = r.sku_id
                                          /\ l.series_date = r.series_date }
            IN ~r.is_interpolated =>
                   /\ r.quantity = Fixed * SumField(lines, "quantity")
                   /\ r.revenue = Fixed * SumField(lines, "revenue_base")

(***************************************************************************)
(* AWSForecastProvider.predict_bulk, _wait_for_status and _cleanup.        *)
(***************************************************************************)
MIN_HISTORY_DAYS == 14
POLL_INTERVAL_SECONDS == 30
MAX_WAIT_SECONDS == 3600

\* the longest a describe call or a sleep may overrun, in seconds
MaxStall == 1800

\* the SKUs of all_history, in the order of the dict
BulkSkus == <<"A", "B">>

\* number of history rows of a SKU; 0: the SKU is not in all_history
HistoryLens == {0, MIN_HISTORY_DAYS - 1, MIN_HISTORY_DAYS}

\* the statuses a describe call may return
Statuses == {"CREATE_IN_PROGRESS", "ACTIVE", "CREATE_FAILED"}
Target == "ACTIVE"

\* mutant: the failure statuses are not recognised
IsFailedMut(status) == FALSE

\* `"FAILED" in status`
IsFailed(status) == status = "CREATE_FAILED"

\* mutant: the loop falls off its end and the function returns
AtCeilingMut == "returned"

\* the statement after the while loop: raise TimeoutError
AtCeiling == "timeout"

\* mutant: the predictor is trained before the data is imported
BulkOrderMut ==
    <<"ensure_bucket", "build_csv", "upload", "ensure_role", "create_dataset_group",
      "create_dataset", "attach_dataset", "train", "import", "generate", "query">>

\* the steps of the try block, in the order the code runs them
BulkOrder ==
    <<"ensure_bucket", "build_csv", "upload", "ensure_role", "create_dataset_group",
      "create_dataset", "attach_dataset", "import", "train", "generate", "query">>

NextStep(st) == BulkOrder[Pos(BulkOrder, st) + 1]

\* the resource an asynchronous step creates, and its key in created_resources
ResourceOf(st) ==
    CASE st = "import" -> "import_job"
      [] st = "train" -> "predictor"
      [] st = "generate" -> "forecast"

\* mutant: the dataset group is deleted before its dataset
CleanupOrderMut == <<"forecast", "predictor", "dataset_group", "dataset", "s3_object">>

\* the order of the delete blocks of _cleanup
CleanupOrder == <<"forecast", "predictor", "dataset", "dataset_group", "s3_object">>

\* mutant: a failed delete escapes _cleanup, ends it and replaces the outcome
DeleteFailedMut(out, idx) == [outcome |-> "raised", idx |-> Len(CleanupOrder) + 1]

\* `except Exception as e: logger.warning(...)`: the outcome stands, the next
\* delete block runs
DeleteFailed(out, idx) == [outcome |-> out, idx |-> idx + 1]

\* _build_training_csv writes the rows of the SKUs with enough history
CsvSkus(h) == { k \in DOMAIN h : h[k] >= MIN_HISTORY_DAYS }

\* the SKUs the query loop iterates over, those not yet queried
Pending(h, done) ==
    { i \in 1..Len(BulkSkus) : h[BulkSkus[i]] > 0 /\ BulkSkus[i] \notin done }

waitVars == <<wpc, elapsed, polls, lastStatus, waitExit>>

BulkStart ==
    /\ bpc = BulkOrder[1]
    /\ allHistory \in [{ BulkSkus[i] : i \in 1..Len(BulkSkus) } -> HistoryLens]
    /\ created = {} /\ registered = {}
    /\ calls = <<>> /\ observed = {} /\ results = {} /\ queried = {}
    /\ outcome = "none" /\ exitAt = "none"
    /\ wpc = "none" /\ elapsed = 0 /\ polls = 0 /\ lastStatus = "none" /\ waitExit = "none"
    /\ cleanupIdx = 0 /\ deletes = <<>> /\ outcomeAtCleanup = <<>>

\* predict_bulk is called on a provider; the pipeline tables play no part
PipeFixed == rawOrders = {} /\ rawRefunds = {} /\ normalized = {} /\ PipeIdle

BulkInit == PipeFixed /\ FcIdle /\ FnIdle /\ JobIdle /\ ConcIdle /\ BulkStart

\* the try block is left, by `return results` or by an exception; finally runs
LeaveTry(out, st, res) ==
    /\ outcome' = out
    /\ exitAt' = st
    /\ bpc' = "cleanup"
    /\ cleanupIdx' = 1
    /\ outcomeAtCleanup' = [outcome |-> out, results |-> res]

\* one SDK call of the try block: it returns (the resources `made` exist, the
\* keys `reg` are set in created_resources) or it raises
SdkCall(st, made, reg) ==
    /\ bpc = st /\ wpc = "none"
    /\ calls' = Append(calls, st)
    /\ \/ /\ created' = created \cup made
          /\ registered' = registered \cup reg
          /\ bpc' = NextStep(st)
          /\ UNCHANGED <<outcome, exitAt, cleanupIdx, outcomeAtCleanup>>
       \/ /\ LeaveTry("raised", st, results)
          /\ UNCHANGED <<created, registered>>
    /\ UNCHANGED <<allHistory, observed, results, queried, deletes>>
    /\ UNCHANGED waitVars
    /\ UNCHANGED <<pipeVars, fcVars, fnVars, jobVars, concVars>>

EnsureBucket == SdkCall("ensure_bucket", {}, {})

\* csv_data = self._build_training_csv(all_history); `if not csv_data: return results`
BuildCsv ==
    /\ bpc = "build_csv"
    /\ calls' = Append(calls, "build_csv")
    /\ IF CsvSkus(allHistory) = {}
       THEN LeaveTry("returned", "build_csv", results)
       ELSE /\ bpc' = NextStep("build_csv")
            /\ UNCHANGED <<outcome, exitAt, cleanupIdx, outcomeAtCleanup>>
    /\ UNCHANGED <<allHistory, created, registered, observed, results, queried,
                   deletes>>
    /\ UNCHANGED waitVars
    /\ UNCHANGED <<pipeVars, fcVars, fnVars, jobVars, concVars>>

Upload == SdkCall("upload", {"s3_object"}, {})
EnsureRole == SdkCall("ensure_role", {}, {})
CreateDatasetGroup == SdkCall("create_dataset_group", {"dataset_group"}, {"dataset_group"})
\* _create_dataset: create_dataset, then update_dataset_group; the key is set
\* when _create_dataset has returned
CreateDataset == SdkCall("create_dataset", {"dataset"}, {})
AttachDataset == SdkCall("attach_dataset", {}, {"dataset"})

\* the create call of _import_data, _create_predictor, _create_forecast; when
\* it returns the resource exists and _wait_for_status starts its clock
StartAsync(st) ==
    /\ bpc = st /\ wpc = "none"
    /\ calls' = Append(calls, st)
    /\ \/ /\ created' = created \cup {ResourceOf(st)}
          /\ wpc' = "check" /\ elapsed' = 0 /\ polls' = 0
          /\ UNCHANGED <<bpc, outcome, exitAt, cleanupIdx, outcomeAtCleanup>>
       \/ /\ LeaveTry("raised", st, results)
          /\ UNCHANGED <<created, wpc, elapsed, polls>>
    /\ UNCHANGED <<allHistory, registered, observed, results, queried, deletes,
                   lastStatus, waitExit>>
    /\ UNCHANGED <<pipeVars, fcVars, fnVars, jobVars, concVars>>

CreateImportJob == StartAsync("import")
CreatePredictor == StartAsync("train")
CreateForecast == StartAsync("generate")

\* `while time.time() - start < MAX_WAIT_SECONDS`, and the raise after the loop
WaitCheck ==
    /\ wpc = "check"
    /\ IF elapsed < MAX_WAIT_SECONDS
       THEN wpc' = "poll" /\ UNCHANGED waitExit
       ELSE wpc' = "exit" /\ waitExit' = AtCeiling
    /\ UNCHANGED <<bpc, allHistory, created, registered, calls, observed, results,
                   queried, outcome, exitAt, elapsed, polls, lastStatus, cleanupIdx, deletes,
                   outcomeAtCleanup>>
    /\ UNCHANGED <<pipeVars, fcVars, fnVars, jobVars, concVars>>

\* status = get_status_fn() and the two tests on it
WaitPoll(status) ==
    /\ wpc = "poll"
    /\ polls' = polls + 1
    /\ lastStatus' = status
    /\ IF status = Target
       THEN wpc' = "exit" /\ waitExit' = "returned" /\ observed' = observed \cup {bpc}
       ELSE IF IsFailed(status)
       THEN wpc' = "exit" /\ waitExit' = "failed" /\ UNCHANGED observed
       ELSE wpc' = "sleep" /\ UNCHANGED <<waitExit, observed>>
    /\ UNCHANGED <<bpc, allHistory, created, registered, calls, results, queried,
                   outcome, exitAt, elapsed, cleanupIdx, deletes, outcomeAtCleanup>>
    /\ UNCHANGED <<pipeVars, fcVars, fnVars, jobVars, concVars>>

Saturate(t) == IF t > MAX_WAIT_SECONDS THEN MAX_WAIT_SECONDS ELSE t

\* time.sleep(POLL_INTERVAL_SECONDS); the describe call and the sleep together
\* took the interval and `stall` seconds more
WaitSleep(stall) ==
    /\ wpc = "sleep"
    /\ elapsed' = Saturate(elapsed + POLL_INTERVAL_SECONDS + stall)
    /\ wpc' = "check"
    /\ UNCHANGED <<bpc, allHistory, created, registered, calls, observed, results,
                   queried, outcome, exitAt, polls, lastStatus, waitExit, cleanupIdx, deletes,
                   outcomeAtCleanup>>
    /\ UNCHANGED <<pipeVars, fcVars, fnVars, jobVars, concVars>>

\* _wait_for_status is left: the helper returns the arn and predict_bulk sets
\* its key in created_resources, or the exception leaves the try block
WaitDone ==
    /\ wpc = "exit"
    /\ IF waitExit = "returned"
       THEN /\ registered' = registered \cup {ResourceOf(bpc)}
            /\ bpc' = NextStep(bpc)
            /\ UNCHANGED <<outcome, exitAt, cleanupIdx, outcomeAtCleanup>>
       ELSE /\ LeaveTry("raised", bpc, results)
            /\ UNCHANGED registered
    /\ wpc' = "none" /\ elapsed' = 0 /\ polls' = 0 /\ lastStatus' = "none"
    /\ waitExit' = "none"
    /\ UNCHANGED <<allHistory, created, calls, observed, results, queried, deletes>>
    /\ UNCHANGED <<pipeVars, fcVars, fnVars, jobVars, concVars>>

\* one round of `for sku, history in all_history.items()`: the query returns
\* and its result is appended, or it raises and is logged; after the last
\* round the try block is done
QuerySku ==
    /\ bpc = "query"
    /\ Pending(allHistory, queried) # {}
    /\ LET sku == BulkSkus[SetMin(Pending(allHistory, queried))] IN
       /\ calls' = Append(calls, "query")
       /\ queried' = queried \cup {sku}
       /\ \E ok \in BOOLEAN :
              /\ results' = IF ok THEN results \cup {sku} ELSE results
              /\ IF Pending(allHistory, queried \cup {sku}) = {}
                 THEN LeaveTry("returned", "query", IF ok THEN results \cup {sku} ELSE results)
                 ELSE UNCHANGED <<bpc, outcome, exitAt, cleanupIdx, outcomeAtCleanup>>
    /\ UNCHANGED <<allHistory, created, registered, observed, deletes>>
    /\ UNCHANGED waitVars
    /\ UNCHANGED <<pipeVars, fcVars, fnVars, jobVars, concVars>>

\* whether the delete block of resource r issues its delete
Attempts(r, reg) == r = "s3_object" \/ r \in reg

\* one delete block of _cleanup
CleanupStep ==
    /\ bpc = "cleanup"
    /\ cleanupIdx <= Len(CleanupOrder)
    /\ LET r == CleanupOrder[cleanupIdx] IN
       IF Attempts(r, registered)
       THEN \E ok \in BOOLEAN :
                /\ deletes' = Append(deletes, <<r, ok>>)
                /\ IF ok
                   THEN cleanupIdx' = cleanupIdx + 1 /\ UNCHANGED outcome
                   ELSE /\ cleanupIdx' = DeleteFailed(outcome, cleanupIdx).idx
                        /\ outcome' = DeleteFailed(outcome, cleanupIdx).outcome
       ELSE /\ cleanupIdx' = cleanupIdx + 1
            /\ UNCHANGED <<deletes, outcome>>
    /\ UNCHANGED <<bpc, allHistory, created, registered, calls, observed, results,
                   queried, exitAt, outcomeAtCleanup>>
    /\ UNCHANGED waitVars
    /\ UNCHANGED <<pipeVars, fcVars, fnVars, jobVars, concVars>>

\* the finally block is over: `return results`, or the exception propagates
BulkExit ==
    /\ bpc = "cleanup"
    /\ cleanupIdx > Len(CleanupOrder)
    /\ bpc' = "done"
    /\ UNCHANGED <<allHistory, created, registered, calls, observed, results,
                   queried, outcome, exitAt, cleanupIdx, deletes, outcomeAtCleanup>>
    /\ UNCHANGED waitVars
    /\ UNCHANGED <<pipeVars, fcVars, fnVars, jobVars, concVars>>

BulkNext ==
    \/ EnsureBucket
    \/ BuildCsv
    \/ Upload
    \/ EnsureRole
    \/ CreateDatasetGroup
    \/ CreateDataset
    \/ AttachDataset
    \/ CreateImportJob
    \/ CreatePredictor
    \/ CreateForecast
    \/ WaitCheck
    \/ \E status \in Statuses : WaitPoll(status)
    \/ \E stall \in {0, MaxStall} : WaitSleep(stall)
    \/ WaitDone
    \/ QuerySku
    \/ CleanupStep
    \/ BulkExit

BulkSpec == BulkInit /\ [][BulkNext]_vars

(***************************************************************************)
(* Properties of predict_bulk, checked under BulkSpec.                     *)
(***************************************************************************)
\* the resources of a delete-attempt log, in order
Deleted(log) == [i \in 1..Len(log) |-> log[i][1]]

InSeq(seq, x) == \E i \in 1..Len(seq) : seq[i] = x

\* C6: on every exit path of predict_bulk, every remote resource whose create
\* call succeeded in the run (dataset group, dataset, predictor, forecast,
\* uploaded training file) gets a delete attempt from teardown, also when the
\* poll loop that followed its creation failed or timed out.
C6_EveryCreatedResourceDeleted ==
    bpc = "done" =>
        \A r \in created \cap {"dataset_group", "dataset", "predictor", "forecast",
                               "s3_object"} :
            InSeq(Deleted(deletes), r)

\* C7: teardown issues its delete attempts in the order forecast, predictor,
\* dataset, dataset group, uploaded training file, and never deletes a
\* resource before one that was created after it.
C7_ReverseCreationOrder ==
    \A i, j \in 1..Len(deletes) :
        i < j =>
            /\ Pos(<<"forecast", "predictor", "dataset", "dataset_group", "s3_object">>,
                   deletes[i][1])
                 < Pos(<<"forecast", "predictor", "dataset", "dataset_group", "s3_object">>,
                       deletes[j][1])
            /\ {deletes[i][1], deletes[j][1]} \subseteq created =>
                   Pos(calls, CASE deletes[i][1] = "s3_object" -> "upload"
                                [] deletes[i][1] = "dataset_group" -> "create_dataset_group"
                                [] deletes[i][1] = "dataset" -> "create_dataset"
                                [] deletes[i][1] = "predictor" -> "train"
                                [] deletes[i][1] = "forecast" -> "generate")
                     > Pos(calls, CASE deletes[j][1] = "s3_object" -> "upload"
                                    [] deletes[j][1] = "dataset_group" -> "create_dataset_group"
                                    [] deletes[j][1] = "dataset" -> "create_dataset"
                                    [] deletes[j][1] = "predictor" -> "train"
                                    [] deletes[j][1] = "forecast" -> "generate")

\* a run that created and deleted all five resources
C7_Witness ==
    /\ bpc = "done"
    /\ Len(deletes) = 5
    /\ {"forecast", "predictor", "dataset", "dataset_group", "s3_object"} \subseteq created

\* C8: teardown never changes the outcome of predict_bulk: whichever deletions
\* fail, the remaining ones are still attempted, and the call returns the same
\* results or propagates the same exception as when teardown was entered.
C8_TeardownKeepsOutcome ==
    /\ bpc \in {"cleanup", "done"} =>
           /\ outcome = outcomeAtCleanup.outcome
           /\ results = outcomeAtCleanup.results
           /\ outcome \in {"returned", "raised"}
    /\ bpc = "done" =>
           \A r \in (registered \ {"import_job"}) \cup {"s3_object"} :
               InSeq(Deleted(deletes), r)

\* a run that returned results although its first delete failed, and that
\* went on to attempt the other deletes
C8_Witness ==
    /\ bpc = "done"
    /\ outcome = "returned" /\ results # {}
    /\ Len(deletes) = 5
    /\ deletes[1][2] = FALSE /\ deletes[3][2] = FALSE

C10_StepOrder ==
    /\ \A i \in 1..Len(calls) :
           calls[i] = <<"ensure_bucket", "build_csv", "upload", "ensure_role",
                        "create_dataset_group", "create_dataset", "attach_dataset",
                        "import", "train", "generate", "query">>[IF i < 11 THEN i ELSE 11]
    /\ InSeq(calls, "train") => "import" \in observed
    /\ InSeq(calls, "generate") => "train" \in observed
    /\ InSeq(calls, "query") => "generate" \in observed
    /\ queried # {} => "generate" \in observed /\ InSeq(calls, "query")
    /\ results \subseteq queried

\* a run that went through every step and queried both SKUs
C10_Witness ==
    /\ bpc = "done"
    /\ queried = {"A", "B"} /\ results = {"A"}
    /\ Len(calls) = 12

(***************************************************************************)
(* run_forecasts: load the history, call the provider, write the results.  *)
(***************************************************************************)
MIN_HISTORY_AWS == 14

\* SimpleProvider.min_history_days
SimpleMinHistoryDays == 7

\* the SKUs of a store, in the order of `order_by(sku_id, series_date)`
FcSkus == <<"A", "B", "C">>

\* numbers of normalized_series rows a SKU may have; 0: none
FcDays == {0, SimpleMinHistoryDays - 1, MIN_HISTORY_AWS - 1, MIN_HISTORY_AWS}

\* predicted_demand values a provider may return
Demands == {0, 3}

\* predicted_demand_30d is None
NoDemand == 0 - 1

\* the SKUs that have an inventory item
InventorySkus == {"A", "B"}

\* the SKUs of set S, in the order of all_history
InOrder(S) == SelectSeq(FcSkus, LAMBDA k : k \in S)

\* _load_history: one key per SKU that has rows
HistoryKeys(h) == { k \in DOMAIN h : h[k] > 0 }

\* mutant: the split keeps SKUs one day short of the minimum
AwsEligibleMut(h) == { k \in HistoryKeys(h) : h[k] >= MIN_HISTORY_AWS - 1 }

\* aws_eligible
AwsEligible(h) == { k \in HistoryKeys(h) : h[k] >= MIN_HISTORY_AWS }

\* fallback_skus
FallbackSkus(h) == { k \in HistoryKeys(h) : h[k] < MIN_HISTORY_AWS }

\* the model SimpleProvider.predict uses for a history of `days` rows, given
\* whether the seasonal fit goes through
SimpleModel(days, hwOk) ==
    IF days = 0 THEN "simple/no_data"
    ELSE IF days >= 14 /\ hwOk THEN "simple/holt_winters"
    ELSE "simple/wma"

ForecastResult(sku, prov, demand, days) ==
    [sku |-> sku, provider |-> prov, predicted_demand |-> demand, days_of_history |-> days]

FcInit ==
    /\ PipeFixed /\ BulkIdle /\ FnIdle /\ JobIdle /\ ConcIdle
    /\ fpc = "load"
    /\ fprovider \in {"aws", "simple"}
    /\ fcHistory \in [{ FcSkus[i] : i \in 1..Len(FcSkus) } -> FcDays]
    /\ eligible = {} /\ fallback = <<>> /\ bulkArg = <<>> /\ ftodo = <<>>
    /\ fresults = <<>>
    /\ summary = [skus_forecasted |-> 0, skus_skipped |-> 0, errors |-> <<>>]
    /\ attempted = <<>> /\ forecastRows = <<>>
    /\ inventory = [k \in InventorySkus |-> NoDemand]
    /\ foutcome = "none"

\* all_history = _load_history(db, store_id); `if not all_history: return summary`
LoadHistory ==
    /\ fpc = "load"
    /\ IF HistoryKeys(fcHistory) = {}
       THEN fpc' = "done" /\ foutcome' = "returned" /\ UNCHANGED ftodo
       ELSE IF fprovider = "aws"
       THEN fpc' = "partition" /\ UNCHANGED <<foutcome, ftodo>>
       ELSE /\ fpc' = "loop" /\ ftodo' = InOrder(HistoryKeys(fcHistory))
            /\ UNCHANGED foutcome
    /\ UNCHANGED <<fprovider, fcHistory, eligible, fallback, bulkArg, fresults, summary,
                   attempted, forecastRows, inventory>>
    /\ UNCHANGED <<pipeVars, bulkVars, fnVars, jobVars, concVars>>

\* the loop over fallback_skus starts, or is skipped when the dict is empty
EnterFallback(fb) ==
    IF fb = <<>> THEN fpc' = "persist" /\ ftodo' = <<>>
    ELSE fpc' = "fallback" /\ ftodo' = fb

\* the two dict comprehensions over all_history
Partition ==
    /\ fpc = "partition"
    /\ eligible' = AwsEligible(fcHistory)
    /\ fallback' = InOrder(FallbackSkus(fcHistory))
    /\ IF AwsEligible(fcHistory) # {}
       THEN fpc' = "bulk" /\ UNCHANGED ftodo
       ELSE EnterFallback(InOrder(FallbackSkus(fcHistory)))
    /\ UNCHANGED <<fprovider, fcHistory, bulkArg, fresults, summary, attempted, forecastRows,
                   inventory, foutcome>>
    /\ UNCHANGED <<pipeVars, bulkVars, fnVars, jobVars, concVars>>

\* results of predict_bulk for the SKUs of seq, with the demands of d
RECURSIVE BulkResults(_, _, _)
BulkResults(seq, d, h) ==
    IF seq = <<>> THEN <<>>
    ELSE <<ForecastResult(Head(seq), "amazon_forecast", d[Head(seq)], h[Head(seq)])>>
             \o BulkResults(Tail(seq), d, h)

\* mutant: the SKUs of a failed bulk call are not put back
MergeBackMut(fb, el) == fb

\* fallback_skus.update(aws_eligible)
MergeBack(fb, el) == fb \o SelectSeq(InOrder(el), LAMBDA k : \A i \in 1..Len(fb) : fb[i] # k)

\* provider.predict_bulk(store_id, aws_eligible, horizon_days): it returns the
\* results of the SKUs whose query went through, or it raises
BulkCall ==
    /\ fpc = "bulk"
    /\ bulkArg' = bulkArg \o InOrder(eligible)
    /\ \/ \E sub \in SUBSET eligible : \E d \in [sub -> Demands] :
              /\ fresults' = fresults \o BulkResults(InOrder(sub), d, fcHistory)
              /\ summary' = [summary EXCEPT
                                 !.skus_forecasted = @ + Cardinality(sub)]
              /\ EnterFallback(fallback)
              /\ UNCHANGED fallback
       \/ /\ summary' = [summary EXCEPT !.errors = Append(@, "bulk")]
          /\ fallback' = MergeBack(fallback, eligible)
          /\ EnterFallback(MergeBack(fallback, eligible))
          /\ UNCHANGED fresults
    /\ UNCHANGED <<fprovider, fcHistory, eligible, attempted, forecastRows, inventory,
                   foutcome>>
    /\ UNCHANGED <<pipeVars, bulkVars, fnVars, jobVars, concVars>>

\* mutant: an exception of predict ends the loop
AfterFailureMut(rest) == <<>>

\* `except Exception as e: ... summary.errors.append(...)`: the loop goes on
AfterFailure(rest) == rest

\* one round of a per-SKU loop with the statistical provider: the SKU is
\* skipped, or predict returns a result, or predict raises
PredictStep(pos, minDays) ==
    /\ fpc = pos
    /\ ftodo # <<>>
    /\ LET sku == Head(ftodo)
           days == fcHistory[sku]
           Continue(rest) ==
               /\ ftodo' = rest
               /\ fpc' = IF rest = <<>> THEN "persist" ELSE pos
       IN IF days < minDays
          THEN /\ summary' = [summary EXCEPT !.skus_skipped = @ + 1]
               /\ Continue(Tail(ftodo))
               /\ UNCHANGED <<fresults, attempted>>
          ELSE /\ attempted' = Append(attempted, sku)
               /\ \/ \E d \in Demands, hwOk \in BOOLEAN :
                         /\ fresults' = Append(fresults,
                                ForecastResult(sku, SimpleModel(days, hwOk), d, days))
                         /\ summary' = [summary EXCEPT !.skus_forecasted = @ + 1]
                         /\ Continue(Tail(ftodo))
                  \/ /\ summary' = [summary EXCEPT !.errors = Append(@, sku)]
                     /\ Continue(AfterFailure(Tail(ftodo)))
                     /\ UNCHANGED fresults
    /\ UNCHANGED <<fprovider, fcHistory, eligible, fallback, bulkArg, forecastRows,
                   inventory, foutcome>>
    /\ UNCHANGED <<pipeVars, bulkVars, fnVars, jobVars, concVars>>

\* `for sku, df in fallback_skus.items()` with SimpleProvider()
FallbackStep == PredictStep("fallback", SimpleMinHistoryDays)

\* `for sku, df in all_history.items()` with the provider given
LoopStep == PredictStep("loop", SimpleMinHistoryDays)

\* _update_inventory_demand for each result in turn: the item of that sku, if
\* there is one, gets the demand
RECURSIVE UpdateInventory(_, _)
UpdateInventory(inv, rs) ==
    IF rs = <<>> THEN inv
    ELSE UpdateInventory(
             IF Head(rs).sku \in DOMAIN inv
             THEN [inv EXCEPT ![Head(rs).sku] = Head(rs).predicted_demand]
             ELSE inv,
             Tail(rs))

\* mutant: the last result is not written
WrittenMut(rs) == IF rs = <<>> THEN rs ELSE SubSeq(rs, 1, Len(rs) - 1)

\* the results handed to _write_result and _update_inventory_demand
Written(rs) == rs

\* `for result in results: ...; db.flush(); return summary`
Persist ==
    /\ fpc = "persist"
    /\ forecastRows' = forecastRows \o Written(fresults)
    /\ inventory' = UpdateInventory(inventory, Written(fresults))
    /\ fpc' = "done"
    /\ foutcome' = "returned"
    /\ UNCHANGED <<fprovider, fcHistory, eligible, fallback, bulkArg, ftodo, fresults,
                   summary, attempted>>
    /\ UNCHANGED <<pipeVars, bulkVars, fnVars, jobVars, concVars>>

FcNext ==
    \/ LoadHistory
    \/ Partition
    \/ BulkCall
    \/ FallbackStep
    \/ LoopStep
    \/ Persist

FcSpec == FcInit /\ [][FcNext]_vars

(***************************************************************************)
(* Properties of run_forecasts, checked under FcSpec.                      *)
(***************************************************************************)
Range(seq) == { seq[i] : i \in 1..Len(seq) }

\* how many entries of seq equal x
CountOf(seq, x) == Cardinality({ i \in 1..Len(seq) : seq[i] = x })

\* how many results of seq are for SKU k
CountSku(seq, k) == Cardinality({ i \in 1..Len(seq) : seq[i].sku = k })

\* the SKUs with rows, fewer than 14 of them
ShortSkus == { k \in HistoryKeys(fcHistory) : fcHistory[k] < 14 }

\* C11: with the managed-service provider no SKU with fewer than 14 days of
\* history is passed to predict_bulk or written to the training file; every
\* such SKU goes the statistical provider's way; the eligible and the
\* ineligible SKUs partition the loaded SKUs.
C11_ShortHistoryNeverSentToBulk ==
    /\ \A k \in Range(bulkArg) : fcHistory[k] >= 14
    /\ CsvSkus([k \in Range(bulkArg) |-> fcHistory[k]]) \cap ShortSkus = {}
    /\ fprovider = "simple" => bulkArg = <<>>
    /\ fprovider = "aws" /\ fpc \in {"bulk", "fallback", "persist"} =>
           /\ eligible \cap ShortSkus = {}
           /\ eligible \cup ShortSkus = HistoryKeys(fcHistory)
           /\ ShortSkus \subseteq Range(fallback)
           /\ fpc = "bulk" => Range(fallback) = ShortSkus
    /\ fprovider = "aws" /\ fpc = "done" /\ HistoryKeys(fcHistory) # {} =>
           /\ { k \in ShortSkus : fcHistory[k] >= 7 } \subseteq Range(attempted)
           /\ summary.skus_skipped = Cardinality({ k \in ShortSkus : fcHistory[k] < 7 })
           /\ \A i \in 1..Len(fresults) :
                  fresults[i].sku \in ShortSkus => fresults[i].provider # "amazon_forecast"

\* a finished run that sent one SKU to the bulk call, one 13-day SKU to the
\* statistical provider and skipped a 6-day SKU
C11_Witness ==
    /\ fpc = "done" /\ fprovider = "aws"
    /\ fcHistory = [A |-> 14, B |-> 13, C |-> 6]
    /\ bulkArg = <<"A">>
    /\ "B" \in Range(attempted)
    /\ summary.skus_skipped = 1

\* C12: when the bulk call raises, run_forecasts still returns: every eligible
\* SKU is forecast through the statistical provider in the same run, exactly
\* one error entry records the bulk failure, the ineligible SKUs are still
\* processed, and skus_forecasted counts the successful fallback results.
C12_BulkFailureFallsBack ==
    /\ foutcome \in {"none", "returned"}
    /\ CountOf(summary.errors, "bulk") <= 1
    /\ fpc = "done" /\ "bulk" \in Range(summary.errors) =>
           /\ foutcome = "returned"
           /\ eligible # {}
           /\ eligible \subseteq Range(attempted)
           /\ { k \in ShortSkus : fcHistory[k] >= 7 } \subseteq Range(attempted)
           /\ summary.skus_skipped = Cardinality({ k \in ShortSkus : fcHistory[k] < 7 })
           /\ \A k \in Range(attempted) : CountOf(attempted, k) = 1
           /\ summary.skus_forecasted = Len(fresults)
           /\ \A i \in 1..Len(fresults) :
                  /\ fresults[i].provider \in {"simple/holt_winters", "simple/wma"}
                  /\ fresults[i].sku \in Range(attempted)
           /\ Len(summary.errors) = 1 + Len(attempted) - Len(fresults)

\* three eligible SKUs, the bulk call raised, all three came back through the
\* statistical provider
C12_Witness ==
    /\ fpc = "done"
    /\ fcHistory = [A |-> 14, B |-> 14, C |-> 14]
    /\ summary.errors = <<"bulk">>
    /\ summary.skus_forecasted = 3
    /\ Len(forecastRows) = 3

\* the SKUs a finished run has to hand to the statistical provider
DueSkus ==
    { k \in HistoryKeys(fcHistory) :
          /\ fcHistory[k] >= 7
          /\ fprovider = "aws" => k \in ShortSkus \/ "bulk" \in Range(summary.errors) }

\* C13: a failure of the statistical provider for one SKU is caught and
\* recorded under that SKU, and every other SKU is still attempted and, if it
\* succeeds, counted and persisted; in the fallback loop and in the per-SKU
\* loop, for any set of failing SKUs.
C13_FailureIsolated ==
    fpc = "done" /\ HistoryKeys(fcHistory) # {} =>
        /\ Range(attempted) = DueSkus
        /\ Len(attempted) = Cardinality(DueSkus)
        /\ \A k \in DueSkus :
               /\ CountSku(fresults, k)
                    + CountOf(summary.errors, k) = 1
               /\ CountSku(forecastRows, k)
                    = CountSku(fresults, k)
        /\ summary.skus_forecasted = Len(fresults)

\* the first and the last SKU failed, in either loop, and the one between
\* them was forecast, counted and persisted
C13_Witness ==
    /\ fpc = "done"
    /\ summary.errors = <<"A", "C">>
    /\ summary.skus_forecasted = 1
    /\ Len(forecastRows) = 1 /\ forecastRows[1].sku = "B"

\* C14: for every ForecastResult a run produces exactly one forecast row is
\* persisted by the run, and the inventory item of the result's SKU holds the
\* result's predicted_demand; no result goes unpersisted.
C14_ResultsPersisted ==
    fpc = "done" =>
        /\ forecastRows = fresults
        /\ \A i \in 1..Len(fresults) :
               /\ CountOf(forecastRows, fresults[i]) = 1
               /\ fresults[i].sku \in DOMAIN inventory =>
                      inventory[fresults[i].sku] = fresults[i].predicted_demand
        /\ \A k \in DOMAIN inventory :
               (\A i \in 1..Len(fresults) : fresults[i].sku # k) =>
                   inventory[k] = NoDemand

\* a run with a bulk result for A and a statistical result for B, both
\* persisted and both in the inventory
C14_Witness ==
    /\ fpc = "done"
    /\ Len(fresults) = 2
    /\ fresults[1].provider = "amazon_forecast" /\ fresults[1].sku = "A"
    /\ fresults[2].provider = "simple/wma" /\ fresults[2].sku = "B"
    /\ inventory = [A |-> 3, B |-> 0]

\* C27: the run summary accounts for every loaded SKU exactly once:
\* skus_forecasted + skus_skipped + the number of per-SKU errors equals the
\* number of loaded SKUs when run_forecasts returns, also when the bulk call
\* succeeds without a result for some SKU.
C27_SummaryAccountsForEverySku ==
    fpc = "done" =>
        summary.skus_forecasted + summary.skus_skipped
            + Cardinality({ i \in DOMAIN summary.errors : summary.errors[i] # "bulk" })
          = Cardinality(HistoryKeys(fcHistory))

(***************************************************************************)
(* The providers' arithmetic: SimpleProvider.predict and                   *)
(* AWSForecastProvider._query_forecast.  A float is modelled as a whole    *)
(* number of thousandths, truncated; a value rounded to one decimal as a   *)
(* whole number of tenths.                                                 *)
(***************************************************************************)
Milli == 10 * 10 * 10

\* the largest r with r * r <= x, searched between lo and hi
RECURSIVE SqrtBetween(_, _, _)
SqrtBetween(x, lo, hi) ==
    IF lo >= hi THEN lo
    ELSE LET mid == (lo + hi + 1) \div 2
         IN IF mid * mid <= x THEN SqrtBetween(x, mid, hi) ELSE SqrtBetween(x, lo, mid - 1)

RECURSIVE Pow2(_)
Pow2(i) == IF i = 0 THEN 1 ELSE 2 * Pow2(i - 1)

\* np.sqrt, truncated, of a number below 2 ** 30
Sqrt(x) == SqrtBetween(x, 0, IF x < Pow2(15) THEN x ELSE Pow2(15))

Max0(x) == IF x < 0 THEN 0 ELSE x

\* round(x, 1) of a value in thousandths, as tenths
Round1(xm) == (xm + 50) \div 100

\* sums over the rows 1..k of a history
RECURSIVE SumQ(_, _)
SumQ(h, k) == IF k = 0 THEN 0 ELSE h[k].quantity + SumQ(h, k - 1)

RECURSIVE SumQ2(_, _)
SumQ2(h, k) == IF k = 0 THEN 0 ELSE h[k].quantity * h[k].quantity + SumQ2(h, k - 1)

RECURSIVE SumRev(_, _)
SumRev(h, k) == IF k = 0 THEN 0 ELSE h[k].revenue + SumRev(h, k - 1)

\* np.dot(weights, quantities) before the division by weights.sum(): row i
\* (counted from 0) weighs 2 ** i
RECURSIVE WeightedSum(_, _)
WeightedSum(h, k) ==
    IF k = 0 THEN 0 ELSE Pow2(k - 1) * h[k].quantity + WeightedSum(h, k - 1)

\* predicted_demand * avg_rev_per_unit, in thousandths
RevenueMilli(h, predM) ==
    IF SumQ(h, Len(h)) > 0 THEN (predM * SumRev(h, Len(h))) \div SumQ(h, Len(h)) ELSE 0

\* SimpleProvider._empty_result
EmptyResult(days) ==
    [predicted_demand |-> 0, predicted_revenue |-> 0, confidence_low |-> 0,
     confidence_high |-> 0, provider |-> "simple/no_data", days_of_history |-> days]

\* SimpleProvider._weighted_moving_average
WeightedMovingAverage(h, horizon) ==
    LET n == Len(h)
        dailyAvgM == (Milli * WeightedSum(h, n)) \div (Pow2(n) - 1)
        predM == Max0(dailyAvgM * horizon)
        \* total_std = std * sqrt(horizon); std is np.std(quantities), or 0.3
        \* of the daily average when there is one row
        totalStdM == IF n > 1
                     THEN (10 * Sqrt(100 * 100 * horizon
                                         * (n * SumQ2(h, n) - SumQ(h, n) * SumQ(h, n))))
                              \div n
                     ELSE (3 * dailyAvgM * Sqrt(100 * 100 * horizon)) \div Milli
    IN [predicted_demand |-> Round1(predM),
        predicted_revenue |-> RevenueMilli(h, predM),
        confidence_low |-> Round1(Max0(predM - totalStdM)),
        confidence_high |-> Round1(predM + totalStdM),
        provider |-> "simple/wma", days_of_history |-> n]

\* SimpleProvider._holt_winters, given what the fitted model yields: the sum
\* of its daily forecasts and the standard deviation of its residuals
HoltWinters(h, horizon, fit) ==
    LET predM == Max0(Milli * fit.sum)
        totalStdM == fit.std * 10 * Sqrt(100 * 100 * horizon)
    IN [predicted_demand |-> Round1(predM),
        predicted_revenue |-> RevenueMilli(h, predM),
        confidence_low |-> Round1(Max0(predM - (128 * totalStdM) \div 100)),
        confidence_high |-> Round1(predM + (128 * totalStdM) \div 100),
        provider |-> "simple/holt_winters", days_of_history |-> Len(h)]

\* mutant: the seasonal model is tried from 7 days on
SeasonalFromMut == SimpleMinHistoryDays

\* `if days >= 14`
SeasonalFrom == 14

\* SimpleProvider.predict: the result, and the models it called in order
SimplePredict(h, horizon, fit) ==
    IF Len(h) = 0
    THEN [result |-> EmptyResult(0), called |-> <<>>]
    ELSE IF Len(h) >= SeasonalFrom /\ fit.ok
    THEN [result |-> HoltWinters(h, horizon, fit), called |-> <<"holt_winters">>]
    ELSE [result |-> WeightedMovingAverage(h, horizon),
          called |-> IF Len(h) >= SeasonalFrom
                     THEN <<"holt_winters", "wma">> ELSE <<"wma">>]

\* AWSForecastProvider._query_forecast, given the sums of the daily p10, p50
\* and p90 values of the response
QueryForecast(h, p10, p50, p90) ==
    [predicted_demand |-> Round1(Max0(Milli * p50)),
     predicted_revenue |-> RevenueMilli(h, Max0(Milli * p50)),
     confidence_low |-> Round1(Max0(Milli * p10)),
     confidence_high |-> Round1(Max0(Milli * p90)),
     provider |-> "amazon_forecast", days_of_history |-> Len(h)]

\* lengths of the histories drawn
HistoryLengths == {0, 1, 3, 6, 7, 10, 13, 14, 15}

\* a history of n daily rows: all zero, flat, or a three-day ramp
History(n, shape) ==
    [i \in 1..n |->
        LET q == CASE shape = "zero" -> 0
                   [] shape = "flat" -> 2
                   [] shape = "ramp" -> 1 + (i % 3)
        IN [quantity |-> q, revenue |-> 5 * q]]

Histories == { History(n, shape) : n \in HistoryLengths, shape \in {"zero", "flat", "ramp"} }

Horizons == {1, 30}

\* what the seasonal fit may yield: an exception, or a forecast sum and a
\* residual standard deviation
Fits ==
    { [ok |-> FALSE, sum |-> 0, std |-> 0] }
        \cup { [ok |-> TRUE, sum |-> s, std |-> r] : s \in {0 - 5, 0, 40}, r \in {0, 2} }

\* sums of daily quantile values a query response may hold
QuantileSums == {0 - 2, 0, 3, 5}

ProviderInit ==
    /\ PipeFixed /\ BulkIdle /\ FcIdle /\ JobIdle /\ ConcIdle
    /\ fnOp = "none"
    /\ fnOut = <<>>
    /\ fnIn \in
          { [fn |-> "predict", history |-> h, horizon |-> d, p10 |-> 0, p50 |-> 0, p90 |-> 0]
                : h \in Histories, d \in Horizons }
          \cup { [fn |-> "query", history |-> History(14, "ramp"), horizon |-> 30,
                  p10 |-> a, p50 |-> b, p90 |-> c]
                     : a \in QuantileSums, b \in QuantileSums, c \in QuantileSums }

\* simple.predict(store_id, sku, history, horizon_days)
Predict ==
    /\ fnOp = "none"
    /\ fnIn.fn = "predict"
    /\ \E fit \in Fits : fnOut' = SimplePredict(fnIn.history, fnIn.horizon, fit)
    /\ fnOp' = "predict"
    /\ UNCHANGED fnIn
    /\ UNCHANGED <<pipeVars, bulkVars, fcVars, jobVars, concVars>>

\* self._query_forecast(forecast_arn, store_id, sku, history, horizon_days)
Query ==
    /\ fnOp = "none"
    /\ fnIn.fn = "query"
    /\ fnOut' = [result |-> QueryForecast(fnIn.history, fnIn.p10, fnIn.p50, fnIn.p90),
                 called |-> <<"query_forecast">>]
    /\ fnOp' = "query"
    /\ UNCHANGED fnIn
    /\ UNCHANGED <<pipeVars, bulkVars, fcVars, jobVars, concVars>>

ProviderNext ==
    \/ Predict
    \/ Query

ProviderSpec == ProviderInit /\ [][ProviderNext]_vars

(***************************************************************************)
(* Properties of the providers, checked under ProviderSpec.                *)
(***************************************************************************)
\* C15: every ForecastResult of either provider has predicted_demand >= 0
\* and confidence_low <= predicted_demand <= confidence_high, for whatever
\* p10/p50/p90 values the query returns and for every history and horizon.
C15_ForecastMonotone ==
    fnOp # "none" =>
        /\ fnOut.result.predicted_demand >= 0
        /\ fnOut.result.confidence_low <= fnOut.result.predicted_demand
        /\ fnOut.result.predicted_demand <= fnOut.result.confidence_high

C17_ZeroForecastBelowMinimum ==
    fnOp = "predict" /\ Len(fnIn.history) < 7 =>
        /\ fnOut.result.predicted_demand = 0
        /\ fnOut.result.provider = "simple/no_data"

(***************************************************************************)
(* The first three stages applied to a drawn frame, outside a run: the     *)
(* timestamps carry offsets, the rate table is any PipelineConfig may      *)
(* hold.                                                                   *)
(***************************************************************************)
\* Order lines of one store.  Line 2 is late on day 1 at UTC-5, line 3 early
\* on day 3 at UTC+2; line 4 spells its currency in lower case, line 5 has a
\* currency no table knows.
StageLines ==
    { [id |-> 1, store_id |-> "s1", external_order_id |-> "o1", sku_raw |-> "A",
       quantity |-> 2, unit_price |-> 10, currency |-> "USD",
       order_date_utc |-> 1 * HoursPerDay + 12, utc_offset |-> 0, category |-> "c1"],
      [id |-> 2, store_id |-> "s1", external_order_id |-> "o1", sku_raw |-> "A",
       quantity |-> 3, unit_price |-> 20, currency |-> "USD",
       order_date_utc |-> 1 * HoursPerDay + 23, utc_offset |-> 0 - 5, category |-> "c1"],
      [id |-> 3, store_id |-> "s1", external_order_id |-> "o2", sku_raw |-> "B",
       quantity |-> 1, unit_price |-> 20, currency |-> "EUR",
       order_date_utc |-> 3 * HoursPerDay + 1, utc_offset |-> 2, category |-> "c1"],
      [id |-> 4, store_id |-> "s1", external_order_id |-> "o3", sku_raw |-> "B",
       quantity |-> 4, unit_price |-> 5, currency |-> "eur",
       order_date_utc |-> 2 * HoursPerDay, utc_offset |-> 0, category |-> "c1"],
      [id |-> 5, store_id |-> "s1", external_order_id |-> "o3", sku_raw |-> "C",
       quantity |-> 1, unit_price |-> 7, currency |-> "GBP",
       order_date_utc |-> 2 * HoursPerDay + 5, utc_offset |-> 0, category |-> "c1"] }

\* Refunds: two on order o1, one of half of order o2's line, one of another
\* store on an order id of this store.
StageRefunds ==
    { [id |-> 1, store_id |-> "s1", external_order_id |-> "o1", amount |-> 40,
       currency |-> "USD"],
      [id |-> 2, store_id |-> "s1", external_order_id |-> "o1", amount |-> 100,
       currency |-> "EUR"],
      [id |-> 3, store_id |-> "s1", external_order_id |-> "o2", amount |-> 10,
       currency |-> "EUR"],
      [id |-> 4, store_id |-> "s2", external_order_id |-> "o1", amount |-> 80,
       currency |-> "USD"] }

\* exchange_rates of a PipelineConfig with base currency USD
RateTables ==
    { [c \in {"USD"} |-> 1],
      [c \in {"USD", "EUR"} |-> IF c = "USD" THEN 1 ELSE 2],
      [c \in {"USD", "EUR"} |-> 2] }

StageInit ==
    /\ PipeFixed /\ BulkIdle /\ FcIdle /\ JobIdle /\ ConcIdle
    /\ fnOp = "none"
    /\ fnOut = <<>>
    /\ fnIn \in
          { [orders |-> df, refunds |-> rf,
             config |-> [store_id |-> "s1", timezone |-> "UTC", base_currency |-> "USD",
                         exchange_rates |-> t]]
                : df \in (SUBSET StageLines) \ {{}}, rf \in SUBSET StageRefunds,
                  t \in RateTables }

\* one stage's transform: `before` is the frame it was given
Apply(prevOp, op, frame) ==
    /\ fnOp = prevOp
    /\ fnOp' = op
    /\ fnOut' = [before |-> IF prevOp = "none" THEN fnIn.orders ELSE fnOut.frame,
                 frame |-> frame]
    /\ UNCHANGED fnIn
    /\ UNCHANGED <<pipeVars, bulkVars, fcVars, jobVars, concVars>>

ApplyTimezone == Apply("none", "timezone", TimezoneNormalizer(fnIn.orders))

ApplyCurrency ==
    /\ fnOp = "timezone"
    /\ Apply("timezone", "currency", CurrencyNormalizer(fnOut.frame, fnIn.config))

ApplyRefunds ==
    /\ fnOp = "currency"
    /\ Apply("currency", "refunds", RefundAdjustment(fnOut.frame, fnIn.refunds, fnIn.config))

StageNext ==
    \/ ApplyTimezone
    \/ ApplyCurrency
    \/ ApplyRefunds

StageSpec == StageInit /\ [][StageNext]_vars

(***************************************************************************)
(* Properties of the stages, checked under StageSpec.                      *)
(***************************************************************************)
\* the row of frame df that came from line id
RowOf(df, id) == CHOOSE r \in df : r.id = id

\* C18: for an order whose lines sum to R > 0 and whose refunds sum to F in
\* base currency, after the refund stage the lines sum to max(0, R - F), each
\* line is reduced by its share line / R of F (down to 0 at most), no line is
\* negative, and lines of orders without refunds are unchanged.
C18_RefundProration ==
    fnOp = "refunds" =>
        /\ { r.id : r \in fnOut.frame } = { r.id : r \in fnOut.before }
        /\ Cardinality(fnOut.frame) = Cardinality(fnOut.before)
        /\ \A o \in { l.external_order_id : l \in fnOut.before } :
               LET was == { l \in fnOut.before : l.external_order_id = o }
                   now == { l \in fnOut.frame : l.external_order_id = o }
                   R == SumField(was, "revenue_base")
                   F == SumField(
                            { [id |-> r.id,
                               a |-> IF r.currency = "USD" THEN r.amount
                                     ELSE IF r.currency \in DOMAIN fnIn.config.exchange_rates
                                     THEN r.amount * fnIn.config.exchange_rates[r.currency]
                                     ELSE r.amount]
                              : r \in { x \in fnIn.refunds :
                                          x.store_id = "s1" /\ x.external_order_id = o } },
                            "a")
               IN R > 0 =>
                      /\ SumField(now, "revenue_base") = (IF R > F THEN R - F ELSE 0)
                      /\ \A l \in was :
                             /\ RowOf(now, l.id).revenue_base >= 0
                             /\ F <= R =>
                                    (l.revenue_base - RowOf(now, l.id).revenue_base) * R
                                        = l.revenue_base * F
                             /\ F > R => RowOf(now, l.id).revenue_base = 0
                             /\ F = 0 => RowOf(now, l.id) = l

\* order o1 of two lines (20 and 60) refunded 40: the lines lose 10 and 30;
\* order o2 of one line refunded half keeps exactly half
C18_Witness ==
    /\ fnOp = "refunds"
    /\ { r.id : r \in fnOut.before } = {1, 2, 3}
    /\ { r.id : r \in fnIn.refunds } = {1, 3, 4}
    /\ RowOf(fnOut.frame, 1).revenue_base = 10
    /\ RowOf(fnOut.frame, 2).revenue_base = 30
    /\ RowOf(fnOut.frame, 3).revenue_base * 2 = RowOf(fnOut.before, 3).revenue_base
    /\ RowOf(fnOut.before, 3).revenue_base > 0

C20_UtcSeriesDate ==
    fnOp = "timezone" =>
        /\ Cardinality(fnOut.frame) = Cardinality(fnIn.orders)
        /\ \A l \in fnIn.orders :
               /\ \E r \in fnOut.frame : r.id = l.id
               /\ 24 * RowOf(fnOut.frame, l.id).series_date
                      <= l.order_date_utc - l.utc_offset
               /\ l.order_date_utc - l.utc_offset
                      < 24 * (RowOf(fnOut.frame, l.id).series_date + 1)

\* line 2, 23:00 of day 1 at UTC-5, lands on day 2; line 3, 01:00 of day 3 at
\* UTC+2, lands on day 2
C20_Witness ==
    /\ fnOp = "timezone"
    /\ {2, 3} \subseteq { l.id : l \in fnIn.orders }
    /\ RowOf(fnOut.frame, 2).series_date = 2
    /\ RowOf(fnOut.frame, 3).series_date = 2

(***************************************************************************)
(* The rollup, outlier and interpolation stages applied in turn to a drawn *)
(* frame of order lines, outside a run.                                    *)
(***************************************************************************)
\* Order lines of one store as the dedup stage leaves them.  Lines 1 and 2
\* share a key; line 3 has their SKU and date under another category; lines 4
\* and 5 have no category; line 6 is far larger than the rest.
SeriesLines ==
    { [id |-> 1, store_id |-> "s1", canonical_sku |-> "A", category |-> "c1",
       series_date |-> 1, quantity |-> 2, revenue_base |-> 20],
      [id |-> 2, store_id |-> "s1", canonical_sku |-> "A", category |-> "c1",
       series_date |-> 1, quantity |-> 3, revenue_base |-> 60],
      [id |-> 3, store_id |-> "s1", canonical_sku |-> "A", category |-> "c2",
       series_date |-> 1, quantity |-> 1, revenue_base |-> 10],
      [id |-> 4, store_id |-> "s1", canonical_sku |-> "A", category |-> NoCat,
       series_date |-> 3, quantity |-> 4, revenue_base |-> 40],
      [id |-> 5, store_id |-> "s1", canonical_sku |-> "A", category |-> NoCat,
       series_date |-> 3, quantity |-> 1, revenue_base |-> 10],
      [id |-> 6, store_id |-> "s1", canonical_sku |-> "B", category |-> "c1",
       series_date |-> 2, quantity |-> 40, revenue_base |-> 400],
      [id |-> 7, store_id |-> "s1", canonical_sku |-> "B", category |-> "c1",
       series_date |-> 5, quantity |-> 3, revenue_base |-> 30] }

SeriesInit ==
    /\ PipeFixed /\ BulkIdle /\ FcIdle /\ JobIdle /\ ConcIdle
    /\ fnOp = "none"
    /\ fnOut = <<>>
    /\ fnIn \in
          { [orders |-> df, strategy |-> st, method |-> me]
                : df \in SUBSET SeriesLines, st \in Strategies, me \in Methods }

ApplyRollup == Apply("none", "rollup", VariantRollup(fnIn.orders))

ApplyOutliers ==
    /\ fnOp = "rollup"
    /\ Apply("rollup", "outliers", OutlierDetector(fnOut.frame, fnIn.strategy))

ApplyInterpolation ==
    /\ fnOp = "outliers"
    /\ Apply("outliers", "interpolation", MissingDataInterpolator(fnOut.frame, fnIn.method))

SeriesNext ==
    \/ ApplyRollup
    \/ ApplyOutliers
    \/ ApplyInterpolation

SeriesSpec == SeriesInit /\ [][SeriesNext]_vars

(***************************************************************************)
(* Properties of the three stages, checked under SeriesSpec.               *)
(***************************************************************************)
\* the key of a rolled-up row
RollupKey(r) == <<r.store_id, r.sku_id, r.category_id, r.series_date>>

\* C21: the rollup output has no two rows with the same (store_id, sku_id,
\* category, series_date), has one row for every key of the input, and each
\* row's quantity and revenue are the sums over the input lines of its key;
\* lines without a category form one group.
C21_RollupInjective ==
    fnOp = "rollup" =>
        /\ \A a, b \in fnOut.frame : RollupKey(a) = RollupKey(b) => a = b
        /\ { RollupKey(r) : r \in fnOut.frame }
               = { <<l.store_id, l.canonical_sku, l.category, l.series_date>>
                       : l \in fnIn.orders }
        /\ \A r \in fnOut.frame :
               LET lines == { l \in fnIn.orders :
                                /\ l.store_id = r.store_id
                                /\ l.canonical_sku = r.sku_id
                                /\ l.category = r.category_id
                                /\ l.series_date = r.series_date }
               IN /\ lines # {}
                  /\ r.quantity = Fixed * SumField(lines, "quantity")
                  /\ r.revenue = Fixed * SumField(lines, "revenue_base")

\* all seven lines: five rows, the two-line key summed to 5 and 80, the
\* other category of the same SKU and date on a row of its own, the two
\* lines without a category on one row
C21_Witness ==
    /\ fnOp = "rollup"
    /\ fnIn.orders = SeriesLines
    /\ Cardinality(fnOut.frame) = 5
    /\ \E r \in fnOut.frame :
           /\ RollupKey(r) = <<"s1", "A", "c1", 1>>
           /\ r.quantity = Fixed * 5 /\ r.revenue = Fixed * 80
    /\ \E r \in fnOut.frame : RollupKey(r) = <<"s1", "A", "c2", 1>>
    /\ \E r \in fnOut.frame :
           RollupKey(r) = <<"s1", "A", NoCat, 3>> /\ r.quantity = Fixed * 5

\* the bounds OutlierDetector.transform computes for one column
OutlierIqr(df, col) == Quantile(df, col, 3) - Quantile(df, col, 1)
OutlierLow(df, col) == Quantile(df, col, 1) - (3 * OutlierIqr(df, col)) \div 2
OutlierHigh(df, col) == Quantile(df, col, 3) + (3 * OutlierIqr(df, col)) \div 2
\* a value the stage treats as out of bounds: none when the IQR is zero
OutOfBounds(df, r, col) ==
    /\ OutlierIqr(df, col) # 0
    /\ r[col] < OutlierLow(df, col) \/ r[col] > OutlierHigh(df, col)
\* the nearer bound of a value
NearerBound(df, r, col) ==
    IF r[col] < OutlierLow(df, col) THEN OutlierLow(df, col) ELSE OutlierHigh(df, col)

C22_FlagReached ==
    /\ fnOp = "outliers"
    /\ fnIn.strategy = "flag"
    /\ \E r \in fnOut.frame : r.is_outlier_adjusted /\ r.quantity = Fixed * 40

\* a column of equal quantities beside a column of unequal revenues
C22_ZeroIqrReached ==
    /\ fnOp = "outliers"
    /\ fnIn.strategy = "cap"
    /\ Cardinality(fnOut.before) > 1
    /\ OutlierIqr(fnOut.before, "quantity") = 0
    /\ OutlierIqr(fnOut.before, "revenue") # 0

\* C23: interpolation changes nothing about existing data: every input row
\* appears in the output with the same quantity, revenue, category and flags,
\* and every output row on a (store, sku, date) without an input row has
\* quantity 0, revenue 0 and is_interpolated set.
C23_ExistingRowsUnchanged ==
    fnOp = "interpolation" =>
        /\ \A r \in fnOut.before : r \in fnOut.frame
        /\ \A o \in fnOut.frame :
               (\A r \in fnOut.before : SeriesKey(r) # SeriesKey(o)) =>
                   o.quantity = 0 /\ o.revenue = 0 /\ o.is_interpolated

(***************************************************************************)
(* The scheduled job _run_all_forecasts: every configured store in turn,   *)
(* each in a session of its own, over the committed forecast_results and   *)
(* inventory_items tables.  run_forecasts is taken from its results on:    *)
(* what it writes to the session, and where it can raise.                  *)
(***************************************************************************)
MaxJobs == 2

\* pipeline_store_config, in the order the query returns it
JobStores == <<"s1", "s2">>
\* the SKUs with normalized series of a store; both stores sell "A"
JobSkus(s) == IF s = "s1" THEN {"A", "B"} ELSE {"A"}

\* the results one run_forecasts call can produce: any SKUs of the store (the
\* others are skipped or failed); the n-th job predicts a demand of n
JobResults(s, n) ==
    { r \in UNION { [1..len -> [sku : JobSkus(s), demand : {n}]] : len \in 0..2 } :
          \A i, j \in DOMAIN r : i < j => Pos(FcSkus, r[i].sku) < Pos(FcSkus, r[j].sku) }

\* _write_result: one more row in the session
WriteResult(rows, s, r) == Append(rows, [store_id |-> s, sku |-> r.sku, demand |-> r.demand])

\* _update_inventory_demand: the item is looked up by sku alone
UpdateInventoryDemand(inv, s, sku, demand) ==
    IF sku \in DOMAIN inv THEN [inv EXCEPT ![sku].demand = demand] ELSE inv

\* created_at is filled in from the clock when the rows are inserted
Stamped(rows, now) ==
    [i \in DOMAIN rows |->
        [store_id |-> rows[i].store_id, sku |-> rows[i].sku,
         demand |-> rows[i].demand, created_at |-> now]]

\* mutant: the new rows replace the earlier rows of their store and SKU
InsertedMut(table, rows) ==
    SelectSeq(table, LAMBDA t : \A i \in DOMAIN rows :
                  rows[i].store_id # t.store_id \/ rows[i].sku # t.sku) \o rows

\* forecast_results after the session's INSERTs are committed
Inserted(table, rows) == table \o rows

\* mutant: the rows flushed before the exception stay
AfterRollbackMut(table, rows) == table \o rows

\* forecast_results after session.rollback()
AfterRollback(table, rows) == table

\* get_forecast_for_sku: order by created_at desc, first
NoRow == <<>>
GetForecastForSku(table, s, k) ==
    LET rows == { table[i] : i \in { j \in DOMAIN table :
                                        table[j].store_id = s /\ table[j].sku = k } }
    IN IF rows = {} THEN NoRow
       ELSE CHOOSE r \in rows : \A o \in rows : o.created_at <= r.created_at

JobInit ==
    /\ PipeFixed /\ BulkIdle /\ FcIdle /\ FnIdle /\ ConcIdle
    /\ jpc = "idle" /\ jtodo = <<>> /\ jtx = <<>> /\ fcTable = <<>>
    /\ jlog = <<>> /\ jobs = 0 /\ jclock = 0
    /\ invTable \in [InventorySkus -> [store_id : Stores, demand : {NoDemand}]]

\* the job starts: the provider is built and the stores are listed
JobStart ==
    /\ jpc \in {"idle", "raised"}
    /\ jobs < MaxJobs
    /\ jobs' = jobs + 1
    /\ jlog' = <<>>
    /\ \/ jtodo' = JobStores /\ jpc' = "loop"
       \/ jtodo' = <<>> /\ jpc' = "raised"        \* get_provider or the query raises
    /\ UNCHANGED <<jtx, fcTable, invTable, jclock>>
    /\ UNCHANGED <<pipeVars, bulkVars, fcVars, fnVars, concVars>>

\* with get_session() as db: run_forecasts up to its results
JobOpen ==
    /\ jpc = "loop" /\ jtodo # <<>>
    /\ \E res \in JobResults(Head(jtodo), jobs) :
           jtx' = [store |-> Head(jtodo), results |-> res, rows |-> <<>>, inv |-> invTable]
    /\ jpc' = "write"
    /\ UNCHANGED <<jtodo, fcTable, invTable, jlog, jobs, jclock>>
    /\ UNCHANGED <<pipeVars, bulkVars, fcVars, fnVars, concVars>>

\* for result in results: _write_result, _update_inventory_demand
JobWrite ==
    /\ jpc = "write" /\ jtx.results # <<>>
    /\ jtx' = [jtx EXCEPT
                  !.results = Tail(jtx.results),
                  !.rows = WriteResult(jtx.rows, jtx.store, Head(jtx.results)),
                  !.inv = UpdateInventoryDemand(jtx.inv, jtx.store, Head(jtx.results).sku,
                                                Head(jtx.results).demand)]
    /\ UNCHANGED <<jpc, jtodo, fcTable, invTable, jlog, jobs, jclock>>
    /\ UNCHANGED <<pipeVars, bulkVars, fcVars, fnVars, concVars>>

\* db.flush(): the rows are inserted and stamped; the clock may have advanced
JobFlush ==
    /\ jpc = "write" /\ jtx.results = <<>>
    /\ \E now \in {jclock, jclock + 1} :
           /\ jclock' = now
           /\ jtx' = [jtx EXCEPT !.rows = Stamped(jtx.rows, now)]
    /\ jpc' = "commit"
    /\ UNCHANGED <<jtodo, fcTable, invTable, jlog, jobs>>
    /\ UNCHANGED <<pipeVars, bulkVars, fcVars, fnVars, concVars>>

\* run_forecasts returned: session.commit()
JobCommit ==
    /\ jpc = "commit"
    /\ fcTable' = Inserted(fcTable, jtx.rows)
    /\ invTable' = jtx.inv
    /\ jlog' = Append(jlog, [store |-> jtx.store, outcome |-> "committed", rows |-> jtx.rows])
    /\ jtodo' = Tail(jtodo)
    /\ jtx' = <<>>
    /\ jpc' = "loop"
    /\ UNCHANGED <<jobs, jclock>>
    /\ UNCHANGED <<pipeVars, bulkVars, fcVars, fnVars, concVars>>

\* run_forecasts or the commit raises: session.rollback(), the exception is
\* logged by the job and the loop goes on
JobRaise ==
    /\ jpc \in {"write", "commit"}
    /\ fcTable' = AfterRollback(fcTable, jtx.rows)
    /\ jlog' = Append(jlog, [store |-> jtx.store, outcome |-> "failed", rows |-> jtx.rows])
    /\ jtodo' = Tail(jtodo)
    /\ jtx' = <<>>
    /\ jpc' = "loop"
    /\ UNCHANGED <<invTable, jobs, jclock>>
    /\ UNCHANGED <<pipeVars, bulkVars, fcVars, fnVars, concVars>>

\* the loop is over: the job returns
JobEnd ==
    /\ jpc = "loop" /\ jtodo = <<>>
    /\ jpc' = "idle"
    /\ UNCHANGED <<jtodo, jtx, fcTable, invTable, jlog, jobs, jclock>>
    /\ UNCHANGED <<pipeVars, bulkVars, fcVars, fnVars, concVars>>

JobNext ==
    \/ JobStart
    \/ JobOpen
    \/ JobWrite
    \/ JobFlush
    \/ JobCommit
    \/ JobRaise
    \/ JobEnd

JobSpec == JobInit /\ [][JobNext]_vars

(***************************************************************************)
(* Properties of the scheduled job, checked under JobSpec.                 *)
(***************************************************************************)
\* C24: forecast results are append-only across any sequence of runs: every
\* step leaves the rows already in forecast_results in place and only adds
\* rows after them; and the result read as latest for a (store, SKU) is a row
\* of that store and SKU whose creation timestamp no other such row exceeds.
C24_AppendOnlyLatestByTimestamp ==
    /\ [][/\ Len(fcTable') >= Len(fcTable)
          /\ SubSeq(fcTable', 1, Len(fcTable)) = fcTable]_vars
    /\ [](\A s \in Stores : \A k \in JobSkus(s) :
              LET latest == GetForecastForSku(fcTable, s, k)
                  rows == { r \in Range(fcTable) : r.store_id = s /\ r.sku = k }
              IN IF rows = {} THEN latest = NoRow
                 ELSE /\ latest \in rows
                      /\ \A r \in rows : r.created_at <= latest.created_at)

\* two jobs have committed a result for SKU A of store s1: both rows are in
\* the table and the one read as latest is the second job's
C24_Witness ==
    /\ jobs = 2
    /\ \E i, j \in DOMAIN fcTable :
           /\ i < j
           /\ fcTable[i].store_id = "s1" /\ fcTable[i].sku = "A" /\ fcTable[i].demand = 1
           /\ fcTable[j].store_id = "s1" /\ fcTable[j].sku = "A" /\ fcTable[j].demand = 2
           /\ fcTable[i].created_at < fcTable[j].created_at
           /\ GetForecastForSku(fcTable, "s1", "A") = fcTable[j]

\* C29: a forecast run for store S changes the predicted demand only of
\* inventory records that belong to store S, also when a record of another
\* store carries a SKU of S.
C29_OnlyOwnStoreInventory ==
    [][\A k \in DOMAIN invTable :
           invTable'[k] # invTable[k] => invTable[k].store_id = jtx.store]_vars

\* C30: when the forecast run of one store raises, none of its writes reach
\* the tables, the job does not raise and goes on with the next store; when
\* the job returns every configured store has been processed in order and
\* the rows of every store that did not raise are committed.
C30_StoreFailureIsolated ==
    /\ [][(Len(jlog') = Len(jlog) + 1 /\ jlog'[Len(jlog')].outcome = "failed") =>
              /\ fcTable' = fcTable
              /\ invTable' = invTable
              /\ jpc' = "loop"
              /\ jtodo' = Tail(jtodo)]_vars
    /\ [](\A i \in DOMAIN jlog :
              IF jlog[i].outcome = "failed"
              THEN \A r \in Range(jlog[i].rows) : r \notin Range(fcTable)
              ELSE \A r \in Range(jlog[i].rows) : r \in Range(fcTable))
    /\ []((jpc = "idle" /\ jobs > 0) =>
              /\ Len(jlog) = Len(JobStores)
              /\ \A i \in DOMAIN jlog : jlog[i].store = JobStores[i])
    /\ [](jpc = "raised" => jlog = <<>>)

\* the first store's run raised after its rows were flushed, the second
\* store's run was committed, and the job returned
C30_Witness ==
    /\ jpc = "idle" /\ jobs = 1
    /\ Len(jlog) = 2
    /\ jlog[1].store = "s1" /\ jlog[1].outcome = "failed"
    /\ Len(jlog[1].rows) = 2 /\ "created_at" \in DOMAIN jlog[1].rows[1]
    /\ jlog[2].store = "s2" /\ jlog[2].outcome = "committed"
    /\ fcTable = jlog[2].rows /\ Len(fcTable) = 1

(***************************************************************************)
(* Two runs for one store at once: two calls of PipelineRunner.run, each   *)
(* in its own session, and two calls of predict_bulk.  The database shows  *)
(* a session the committed rows and its own writes; a statement or the     *)
(* commit can raise (a lock timeout, the unique index).                    *)
(***************************************************************************)
ConcRuns == {1, 2}
\* the (sku_id, series_date) keys both runs compute from the same raw orders
ConcKeys == {"k1", "k2"}
\* the series rows run r adds; the rows of an earlier run are marked 0
NewRows(r) == { [key |-> k, by |-> r] : k \in ConcKeys }

\* mutant: a run waits until no other run of the store is in flight
MayRunMut(r) == \A o \in ConcRuns \ {r} : cpc[o] \in {"idle", "returned", "raised"}

\* what run() takes before it starts: `with get_session() as session:` only,
\* no lock of the store
MayRun(r) == TRUE

\* what predict_bulk takes before it creates resources: nothing
MayForecast(r) == TRUE

\* dataset_group_name = f"reorder_ai_{store_id}_{run_id}" with a fresh run_id
DatasetGroupName(r) == <<"reorder_ai", "s1", r>>

ConcInit ==
    /\ PipeFixed /\ BulkIdle /\ FcIdle /\ FnIdle /\ JobIdle
    /\ cpc = [r \in ConcRuns |-> "idle"]
    /\ ctx = [r \in ConcRuns |-> [deleted |-> {}, added |-> {}]]
    /\ ctable \in {{}, NewRows(0)}
    /\ cfpc = [r \in ConcRuns |-> "idle"]
    /\ cremote = {}

\* run() is entered; the orders are loaded and the stages computed
CStart(r) ==
    /\ cpc[r] = "idle"
    /\ MayRun(r)
    /\ cpc' = [cpc EXCEPT ![r] = "delete"]
    /\ UNCHANGED <<ctx, ctable, cfpc, cremote>>
    /\ UNCHANGED <<pipeVars, bulkVars, fcVars, fnVars, jobVars>>

\* the DELETE of the store's rows, on the rows committed at that moment
CDelete(r) ==
    /\ cpc[r] = "delete"
    /\ ctx' = [ctx EXCEPT ![r].deleted = ctable]
    /\ cpc' = [cpc EXCEPT ![r] = "insert"]
    /\ UNCHANGED <<ctable, cfpc, cremote>>
    /\ UNCHANGED <<pipeVars, bulkVars, fcVars, fnVars, jobVars>>

\* the session.add loop
CInsert(r) ==
    /\ cpc[r] = "insert"
    /\ ctx' = [ctx EXCEPT ![r].added = NewRows(r)]
    /\ cpc' = [cpc EXCEPT ![r] = "commit"]
    /\ UNCHANGED <<ctable, cfpc, cremote>>
    /\ UNCHANGED <<pipeVars, bulkVars, fcVars, fnVars, jobVars>>

\* session.commit(): the run's writes become visible unless the unique index
\* on (store_id, sku_id, series_date) rejects them
CCommit(r) ==
    /\ cpc[r] = "commit"
    /\ LET new == (ctable \ ctx[r].deleted) \cup ctx[r].added
       IN IF \A a, b \in new : a.key = b.key => a = b
          THEN ctable' = new /\ cpc' = [cpc EXCEPT ![r] = "returned"]
          ELSE ctable' = ctable /\ cpc' = [cpc EXCEPT ![r] = "raised"]
    /\ UNCHANGED <<ctx, cfpc, cremote>>
    /\ UNCHANGED <<pipeVars, bulkVars, fcVars, fnVars, jobVars>>

\* a statement raises: session.rollback()
CRaise(r) ==
    /\ cpc[r] \in {"delete", "insert", "commit"}
    /\ cpc' = [cpc EXCEPT ![r] = "raised"]
    /\ UNCHANGED <<ctx, ctable, cfpc, cremote>>
    /\ UNCHANGED <<pipeVars, bulkVars, fcVars, fnVars, jobVars>>

\* predict_bulk creates the resources of its run under its own name
CfCreate(r) ==
    /\ cfpc[r] = "idle"
    /\ MayForecast(r)
    /\ cremote' = cremote \cup {DatasetGroupName(r)}
    /\ cfpc' = [cfpc EXCEPT ![r] = "created"]
    /\ UNCHANGED <<cpc, ctx, ctable>>
    /\ UNCHANGED <<pipeVars, bulkVars, fcVars, fnVars, jobVars>>

\* predict_bulk's finally: the call deletes the resources it created
CfCleanup(r) ==
    /\ cfpc[r] = "created"
    /\ cremote' = cremote \ {DatasetGroupName(r)}
    /\ cfpc' = [cfpc EXCEPT ![r] = "done"]
    /\ UNCHANGED <<cpc, ctx, ctable>>
    /\ UNCHANGED <<pipeVars, bulkVars, fcVars, fnVars, jobVars>>

ConcNext ==
    \/ \E r \in ConcRuns : CStart(r)
    \/ \E r \in ConcRuns : CDelete(r)
    \/ \E r \in ConcRuns : CInsert(r)
    \/ \E r \in ConcRuns : CCommit(r)
    \/ \E r \in ConcRuns : CRaise(r)
    \/ \E r \in ConcRuns : CfCreate(r)
    \/ \E r \in ConcRuns : CfCleanup(r)

ConcSpec == ConcInit /\ [][ConcNext]_vars

\* C26: runs for one store are not serialized: whatever the other run is
\* doing, a pipeline run can start and take its delete and its insert step,
\* and a predict_bulk call can create its resources.
C26_RunsNotSerialized ==
    \A r \in ConcRuns :
        /\ cpc[r] = "idle" => ENABLED CStart(r)
        /\ cpc[r] = "delete" => ENABLED CDelete(r)
        /\ cpc[r] = "insert" => ENABLED CInsert(r)
        /\ cfpc[r] = "idle" => ENABLED CfCreate(r)

\* both pipeline runs have deleted the store's rows and neither has inserted,
\* while the resources of both predict_bulk calls exist
C26_Witness ==
    /\ cpc[1] = "insert" /\ cpc[2] = "insert"
    /\ ctx[1].deleted # {} /\ ctx[2].deleted = ctx[1].deleted
    /\ cremote = {DatasetGroupName(1), DatasetGroupName(2)}

\* the second run's commit met the first run's rows
C26_LostRunReached ==
    /\ cpc[1] = "returned" /\ cpc[2] = "raised"
    /\ ctx[2].added # {} /\ ctable = NewRows(1)
====
